---- MODULE Spec2Model ----
(***************************************************************************)
(* State-channel engine of the tari-l2 marketplace: the channel state and  *)
(* its transitions (crates/state-channel), and the manager operations that *)
(* apply them under the channels write-lock (crates/marketplace).          *)
(***************************************************************************)
EXTENDS Integers, Sequences, FiniteSets, TLC

(***************************************************************************)
(* Bounds of the model.                                                    *)
(***************************************************************************)
\* Updates are applied while state.nonce is below this.
MaxNonce == 3
\* Amounts of the enumerated transfers, prices and initial balances: 0..MaxAmount.
MaxAmount == 2

\* Amount wraps a u64 with checked arithmetic. The largest integer of the
\* model checker stands for u64::MAX.
U64Max == 2147483647

\* Ed25519 keys: A and B take part in channels, X is a third party.
Keys == {"A", "B", "X"}

\* Option::None of checked_add / checked_sub.
None == -1

(***************************************************************************)
(* common/src/types.rs, common/src/crypto.rs                               *)
(***************************************************************************)
checked_add(a, b) == IF a > U64Max - b THEN None ELSE a + b

checked_sub(a, b) == IF a < b THEN None ELSE a - b

\* An Ed25519 signature is determined by the signing key and the message.
sign(key, message) == [signer |-> key, msg |-> message]

verify_signature(public_key, message, signature) ==
    /\ signature.signer = public_key
    /\ signature.msg = message

\* The k least significant bytes of n, least significant first.
RECURSIVE le_bytes(_, _)
le_bytes(n, k) == IF k = 0 THEN <<>> ELSE <<n % 256>> \o le_bytes(n \div 256, k - 1)

\* u64::to_le_bytes.
to_le_bytes(n) == le_bytes(n, 8)

(***************************************************************************)
(* state-channel/src/state.rs                                              *)
(***************************************************************************)
OrderStatus ==
    <<"Pending", "Confirmed", "Shipping", "Delivered", "Disputed", "Completed", "Cancelled">>

\* bincode writes an enum as the index of its variant.
OrderStatusIndex(status) == CHOOSE i \in 1..Len(OrderStatus) : OrderStatus[i] = status

ChannelState_new(participants, initial_balances) ==
    [nonce |-> 0, balances |-> initial_balances, listings |-> <<>>, orders |-> <<>>]

get_balance(state, participant) ==
    IF participant \in DOMAIN state.balances THEN state.balances[participant] ELSE 0

set_balance(state, participant, amount) ==
    [state EXCEPT !.balances =
        [k \in (DOMAIN state.balances) \cup {participant} |->
            IF k = participant THEN amount ELSE state.balances[k]]]

increment_nonce(state) == [state EXCEPT !.nonce = state.nonce + 1]

(***************************************************************************)
(* state-channel/src/update.rs                                             *)
(***************************************************************************)
NoError == [kind |-> "Ok", required |-> 0, available |-> 0]
InvalidSignature == [kind |-> "InvalidSignature", required |-> 0, available |-> 0]
InvalidStateTransition == [kind |-> "InvalidStateTransition", required |-> 0, available |-> 0]
InvalidChannelState == [kind |-> "InvalidChannelState", required |-> 0, available |-> 0]
InsufficientBalance(required, available) ==
    [kind |-> "InsufficientBalance", required |-> required, available |-> available]

Ok(state) == [err |-> NoError, state |-> state]
Err(e, state) == [err |-> e, state |-> state]

\* Indices of the listings / orders that satisfy a predicate, as iter().find / position.
ListingIndices(state, id) == {i \in 1..Len(state.listings) : state.listings[i].id = id}
OrderIndices(state, id) == {i \in 1..Len(state.orders) : state.orders[i].id = id}
Min(S) == CHOOSE x \in S : \A y \in S : x <= y

apply_Transfer(update, state) ==
    LET from_balance == get_balance(state, update.from)
        to_balance == get_balance(state, update.to)
        new_from_balance == checked_sub(from_balance, update.amount)
        new_to_balance == checked_add(to_balance, update.amount)
    IN  IF from_balance < update.amount
        THEN Err(InsufficientBalance(update.amount, from_balance), state)
        ELSE IF new_from_balance = None \/ new_to_balance = None
        THEN Err(InvalidStateTransition, state)
        ELSE Ok(set_balance(set_balance(state, update.from, new_from_balance),
                            update.to, new_to_balance))

\* apply of CreateListing that appends without looking for the id.
apply_CreateListing_unchecked(update, state) ==
    Ok([state EXCEPT !.listings = Append(state.listings, update.listing)])

apply_CreateListing(update, state) ==
    IF \E i \in 1..Len(state.listings) : state.listings[i].id = update.listing.id
    THEN Err(InvalidStateTransition, state)
    ELSE Ok([state EXCEPT !.listings = Append(state.listings, update.listing)])

apply_UpdateListing(update, state) ==
    LET found == ListingIndices(state, update.listing_id)
    IN  IF found = {}
        THEN Err(InvalidStateTransition, state)
        ELSE Ok([state EXCEPT !.listings[Min(found)].active = update.active])

\* apply_CreateOrder with the listing looked up by id alone, its active flag unread.
apply_CreateOrder_any_listing(update, state) ==
    LET order == update.order
        found == ListingIndices(state, order.listing_id)
        buyer_balance == get_balance(state, order.buyer)
    IN  IF found = {}
        THEN Err(InvalidStateTransition, state)
        ELSE IF buyer_balance < order.amount
        THEN Err(InsufficientBalance(order.amount, buyer_balance), state)
        ELSE Ok([state EXCEPT !.orders = Append(state.orders, order)])

apply_CreateOrder(update, state) ==
    LET order == update.order
        found == {i \in ListingIndices(state, order.listing_id) : state.listings[i].active}
        buyer_balance == get_balance(state, order.buyer)
    IN  IF found = {}
        THEN Err(InvalidStateTransition, state)
        ELSE IF buyer_balance < order.amount
        THEN Err(InsufficientBalance(order.amount, buyer_balance), state)
        ELSE Ok([state EXCEPT !.orders = Append(state.orders, order)])

apply_UpdateOrderStatus(update, state) ==
    LET found == OrderIndices(state, update.order_id)
    IN  IF found = {}
        THEN Err(InvalidStateTransition, state)
        ELSE
          LET order_idx == Min(found)
              order == state.orders[order_idx]
              buyer_balance == get_balance(state, order.buyer)
              seller_balance == get_balance(state, order.seller)
              new_buyer_balance == checked_sub(buyer_balance, order.amount)
              new_seller_balance == checked_add(seller_balance, order.amount)
              rewritten(s) == [s EXCEPT !.orders[order_idx].status = update.status]
          IN  IF update.status = "Completed" /\ order.status # "Completed"
              THEN IF new_buyer_balance = None \/ new_seller_balance = None
                   THEN Err(InvalidStateTransition, state)
                   ELSE Ok(rewritten(set_balance(
                               set_balance(state, order.buyer, new_buyer_balance),
                               order.seller, new_seller_balance)))
              ELSE Ok(rewritten(state))

\* StateUpdate::apply: the variant's rule, then increment_nonce on success.
apply(update, state) ==
    LET r == CASE update.type = "Transfer" -> apply_Transfer(update, state)
               [] update.type = "CreateListing" -> apply_CreateListing(update, state)
               [] update.type = "UpdateListing" -> apply_UpdateListing(update, state)
               [] update.type = "CreateOrder" -> apply_CreateOrder(update, state)
               [] update.type = "UpdateOrderStatus" -> apply_UpdateOrderStatus(update, state)
    IN  IF r.err = NoError THEN Ok(increment_nonce(r.state)) ELSE r

\* bincode::serialize of a Listing / an Order: the fields in declaration order.
serialize_Listing(l) ==
    <<l.id, l.seller, l.title, l.description, l.price, l.ipfs_hash, l.active>>

serialize_Order(o) ==
    <<o.id, o.listing_id, o.buyer, o.seller, o.amount, OrderStatusIndex(o.status) - 1>>

\* bincode::serialize of a StateUpdate: the variant index, then its fields.
serialize_StateUpdate(update) ==
    CASE update.type = "Transfer" -> <<0, update.from, update.to, update.amount>>
      [] update.type = "CreateListing" -> <<1>> \o serialize_Listing(update.listing)
      [] update.type = "UpdateListing" -> <<2, update.listing_id, update.active>>
      [] update.type = "CreateOrder" -> <<3>> \o serialize_Order(update.order)
      [] update.type = "UpdateOrderStatus" ->
            <<4, update.order_id, OrderStatusIndex(update.status) - 1>>

signing_message(update, nonce) ==
    [body |-> serialize_StateUpdate(update), nonce_le |-> to_le_bytes(nonce)]

SignedStateUpdate_new(update, nonce) ==
    [update |-> update, nonce |-> nonce, signatures |-> <<>>]

add_signature(signed, participant, signature) ==
    [signed EXCEPT !.signatures =
        [k \in (DOMAIN signed.signatures) \cup {participant} |->
            IF k = participant THEN signature ELSE signed.signatures[k]]]

\* SignedStateUpdate::verify over the participants vector.
verify(signed, participants) ==
    IF Cardinality(DOMAIN signed.signatures) # Len(participants)
    THEN FALSE
    ELSE \A i \in 1..Len(participants) :
            /\ participants[i] \in DOMAIN signed.signatures
            /\ verify_signature(participants[i],
                                signing_message(signed.update, signed.nonce),
                                signed.signatures[participants[i]])

(***************************************************************************)
(* state-channel/src/channel.rs                                            *)
(***************************************************************************)
\* crypto::hash_data: BLAKE3 of the bytes, collision-free on the modelled inputs.
hash_data(data) == [blake3 |-> data]

\* bincode::serialize of a Vec<PublicKey>: the length, then the keys in order.
serialize_participants(participants) == <<Len(participants)>> \o participants

RECURSIVE SumOver(_, _)
SumOver(f, S) ==
    IF S = {} THEN 0
    ELSE LET k == CHOOSE x \in S : TRUE IN checked_add(f[k], SumOver(f, S \ {k}))

\* The fold of checked_add over the values of a balances map.
SumBalances(balances) == SumOver(balances, DOMAIN balances)

MarketplaceChannel_new(cfg) ==
    [channel_id |-> hash_data(serialize_participants(cfg.participants)),
     participants |-> cfg.participants,
     collateral |-> SumBalances(cfg.initial_balances),
     state |-> ChannelState_new(cfg.participants, cfg.initial_balances),
     status |-> "Opening",
     challenge_period |-> cfg.challenge_period,
     state_history |-> <<>>]

\* The outcome of a &mut self method: the error returned and the channel left behind.
Outcome(e, ch) == [err |-> e, channel |-> ch]

\* apply_update that pushes the update to state_history before it applies it.
apply_update_push_first(ch, signed_update) ==
    IF ch.status # "Active"
    THEN Outcome(InvalidChannelState, ch)
    ELSE IF signed_update.nonce # ch.state.nonce + 1
    THEN Outcome(InvalidStateTransition, ch)
    ELSE IF ~verify(signed_update, ch.participants)
    THEN Outcome(InvalidSignature, ch)
    ELSE LET r == apply(signed_update.update, ch.state)
             pushed == [ch EXCEPT !.state_history = Append(ch.state_history, signed_update)]
         IN  IF r.err # NoError
             THEN Outcome(r.err, pushed)
             ELSE Outcome(NoError, [pushed EXCEPT !.state = r.state])

\* apply_update that refuses only a nonce that is not ahead of the state's.
apply_update_nonce_ahead(ch, signed_update) ==
    IF ch.status # "Active"
    THEN Outcome(InvalidChannelState, ch)
    ELSE IF signed_update.nonce <= ch.state.nonce
    THEN Outcome(InvalidStateTransition, ch)
    ELSE IF ~verify(signed_update, ch.participants)
    THEN Outcome(InvalidSignature, ch)
    ELSE LET r == apply(signed_update.update, ch.state)
         IN  IF r.err # NoError
             THEN Outcome(r.err, ch)
             ELSE Outcome(NoError,
                          [ch EXCEPT !.state = r.state,
                                     !.state_history = Append(ch.state_history, signed_update)])

\* apply_update that checks the nonce before the status.
apply_update_nonce_first(ch, signed_update) ==
    IF signed_update.nonce # ch.state.nonce + 1
    THEN Outcome(InvalidStateTransition, ch)
    ELSE IF ch.status # "Active"
    THEN Outcome(InvalidChannelState, ch)
    ELSE IF ~verify(signed_update, ch.participants)
    THEN Outcome(InvalidSignature, ch)
    ELSE LET r == apply(signed_update.update, ch.state)
         IN  IF r.err # NoError
             THEN Outcome(r.err, ch)
             ELSE Outcome(NoError,
                          [ch EXCEPT !.state = r.state,
                                     !.state_history = Append(ch.state_history, signed_update)])

apply_update(ch, signed_update) ==
    IF ch.status # "Active"
    THEN Outcome(InvalidChannelState, ch)
    ELSE IF signed_update.nonce # ch.state.nonce + 1
    THEN Outcome(InvalidStateTransition, ch)
    ELSE IF ~verify(signed_update, ch.participants)
    THEN Outcome(InvalidSignature, ch)
    ELSE LET r == apply(signed_update.update, ch.state)
         IN  IF r.err # NoError
             THEN Outcome(r.err, ch)
             ELSE Outcome(NoError,
                          [ch EXCEPT !.state = r.state,
                                     !.state_history = Append(ch.state_history, signed_update)])

\* The orders in which a HashMap may yield the keys S.
Orderings(S) ==
    {f \in [1..Cardinality(S) -> S] : \A i, j \in DOMAIN f : f[i] = f[j] => i = j}

\* bincode::serialize of a HashMap: its entries, in the order in which the map
\* yields its keys.
serialize_map(m, order) == [i \in 1..Len(order) |-> <<order[i], m[order[i]]>>]

\* bincode::serialize of a ChannelState whose balances map yields its keys in
\* `order`: the fields in declaration order.
serialize_ChannelState(state, order) ==
    <<state.nonce,
      serialize_map(state.balances, order),
      [i \in DOMAIN state.listings |-> serialize_Listing(state.listings[i])],
      [i \in DOMAIN state.orders |-> serialize_Order(state.orders[i])]>>

\* ChannelState::merkle_root of a state whose balances map yields its keys in
\* `order`.
merkle_root(state, order) == hash_data(serialize_ChannelState(state, order))

\* The order in which one HashMap value yields its keys: the same every time
\* as long as the map is not written.
iteration_order(m) == CHOOSE order \in Orderings(DOMAIN m) : TRUE

get_state_root(ch) == merkle_root(ch.state, iteration_order(ch.state.balances))

\* activate that refuses only a channel that is Active already.
activate_unless_active(ch) ==
    IF ch.status = "Active"
    THEN Outcome(InvalidChannelState, ch)
    ELSE Outcome(NoError, [ch EXCEPT !.status = "Active"])

activate(ch) ==
    IF ch.status # "Opening"
    THEN Outcome(InvalidChannelState, ch)
    ELSE Outcome(NoError, [ch EXCEPT !.status = "Active"])

\* initiate_close that refuses only a channel that is Closing already.
initiate_close_unless_closing(ch) ==
    IF ch.status = "Closing"
    THEN Outcome(InvalidChannelState, ch)
    ELSE Outcome(NoError, [ch EXCEPT !.status = "Closing"])

initiate_close(ch) ==
    IF ch.status # "Active"
    THEN Outcome(InvalidChannelState, ch)
    ELSE Outcome(NoError, [ch EXCEPT !.status = "Closing"])

(***************************************************************************)
(* Inputs.                                                                 *)
(***************************************************************************)
\* The channel's two parties may be listed as the same key: neither
\* MarketplaceChannel::new nor the RPC create_channel compares them.
ParticipantLists == {<<"A", "B">>, <<"A", "A">>}

Range(seq) == {seq[i] : i \in 1..Len(seq)}

Configs ==
    UNION {{[participants |-> ps, initial_balances |-> b, challenge_period |-> 3600] :
                b \in [Range(ps) -> 1..MaxAmount]} : ps \in ParticipantLists}

Listing(id, seller, active) ==
    [id |-> id, seller |-> seller, title |-> "Test Product",
     description |-> "A test product for sale", price |-> 1,
     ipfs_hash |-> "QmTest123", active |-> active]

Order(id, listing_id, buyer, seller, amount, status) ==
    [id |-> id, listing_id |-> listing_id, buyer |-> buyer, seller |-> seller,
     amount |-> amount, status |-> status]

Transfer(from, to, amount) ==
    [type |-> "Transfer", from |-> from, to |-> to, amount |-> amount]
CreateListing(listing) == [type |-> "CreateListing", listing |-> listing]
UpdateListing(listing_id, active) ==
    [type |-> "UpdateListing", listing_id |-> listing_id, active |-> active]
CreateOrder(order) == [type |-> "CreateOrder", order |-> order]
UpdateOrderStatus(order_id, status) ==
    [type |-> "UpdateOrderStatus", order_id |-> order_id, status |-> status]

\* A signature map over the signers S in which the keys of Bad signed the
\* message of the next nonce instead (a replayed or stale signature).
SignaturesOf(update, nonce, S, Bad) ==
    [k \in S |-> IF k \in Bad THEN sign(k, signing_message(update, nonce + 1))
                 ELSE sign(k, signing_message(update, nonce))]

\* The update signed for `nonce` by exactly the signers S, all validly.
SignedBy(update, nonce, S) ==
    [update |-> update, nonce |-> nonce, signatures |-> SignaturesOf(update, nonce, S, {})]

\* Ways of signing `update` for `nonce`: any set of signers, at most one of
\* the two parties' signatures bad.
SignedVariants(update, nonce) ==
    {[update |-> update, nonce |-> nonce, signatures |-> SignaturesOf(update, nonce, S, Bad)] :
        S \in SUBSET Keys, Bad \in {{}, {"A"}, {"B"}}}

\* The updates offered to the signature and nonce gate.
GateUpdates == {Transfer("A", "B", 1), Transfer("B", "A", MaxAmount + 1)}

\* The nonces a caller may put on an update: the current one (a replay), the
\* next one, and the one after (a gap).
NonceChoices(ch) == {ch.state.nonce, ch.state.nonce + 1, ch.state.nonce + 2}

GateInputs(ch) ==
    UNION {SignedVariants(u, n) : u \in GateUpdates, n \in NonceChoices(ch)}

\* The updates offered to the transition rules, signed by both parties.
RuleUpdates ==
    {Transfer("A", t, a) : t \in {"A", "B"}, a \in {1, MaxAmount + 1}}
    \cup {CreateListing(Listing("l1", "A", act)) : act \in BOOLEAN}
    \cup {UpdateListing("l1", act) : act \in BOOLEAN}
    \cup {CreateOrder(Order("o1", "l1", b, "A", a, "Pending")) :
            b \in {"A", "B"}, a \in {1, MaxAmount + 1}}
    \cup {UpdateOrderStatus("o1", st) : st \in {"Confirmed", "Completed"}}

\* Each of them signed by both parties for the next nonce; one of them also
\* replayed at the current nonce, and once with the second party's signature missing.
RuleInputs(ch) ==
    {SignedBy(u, ch.state.nonce + 1, Range(ch.participants)) : u \in RuleUpdates}
    \cup {SignedBy(Transfer("A", "B", 1), ch.state.nonce, Range(ch.participants)),
          SignedBy(Transfer("A", "B", 1), ch.state.nonce + 1, {ch.participants[1]})}

(***************************************************************************)
(* State.                                                                  *)
(***************************************************************************)
VARIABLES
    config,   \* the ChannelConfig the channel was built from
    channel,  \* a MarketplaceChannel driven directly
    last,     \* the last call on that channel: its name, its argument, its error
    channels, \* MarketplaceManager.channels: channel id -> MarketplaceChannel
    storage,  \* MarketplaceStorage.channels: channel id -> stored channel
    lock,     \* the task that holds the write-lock of `channels`, or "none"
    pc,       \* where each task stands in apply_state_update
    arg,      \* the arguments of each task's call
    ret,      \* the error each task's call returned
    local,    \* new_state of each task's apply_update
    base,     \* the manager's channels when the tasks' calls were made
    creating, \* channels that create_channel has inserted and has yet to store
    escrow_contracts, \* MarketplaceManager.escrow_contracts: escrow id -> EscrowContract
    now,      \* the reading of the system clock, in seconds
    overflow_checks,  \* whether the build panics on integer overflow (debug) or wraps (release)
    guards,   \* the lock guards each task holds on the maps of the manager
    locked_collateral, \* TariL1Client.locked_collateral: channel id -> collateral locked on L1
    global_listings,  \* MarketplaceManager.global_listings
    listings, \* MarketplaceStorage's listings: listing id -> stored listing
    receiving,\* per task, the listing handle_received_listing found absent and has yet to add
    result    \* the last manager call: its name, its arguments, what it returned

channelVars == <<config, channel, last>>
managerVars == <<channels, storage, lock, pc, arg, ret, local, base>>
marketVars ==
    <<creating, escrow_contracts, now, overflow_checks, guards, locked_collateral, global_listings, listings,
      receiving, result>>
vars ==
    <<config, channel, last, channels, storage, lock, pc, arg, ret, local, base,
      creating, escrow_contracts, now, overflow_checks, guards, locked_collateral, global_listings, listings,
      receiving, result>>

Tasks == {"t1", "t2"}

NoSigned == [update |-> [type |-> "None"], nonce |-> 0, signatures |-> <<>>]

Returned(op, signed, out) == [op |-> op, signed |-> signed, err |-> out.err]

NoArg == [channel_id |-> "none", signed_update |-> NoSigned]

NoResult == [op |-> "none", args |-> <<>>, ret |-> NoError]

NoListing == [id |-> "none"]

\* MarketplaceManager::new: no escrow, no listing, nothing in progress.
MarketIdle ==
    /\ creating = {}
    /\ escrow_contracts = <<>>
    /\ now = 0
    /\ overflow_checks = FALSE
    /\ locked_collateral = <<>>
    /\ guards = [t \in Tasks |-> {}]
    /\ global_listings = <<>>
    /\ listings = <<>>
    /\ receiving = [t \in Tasks |-> NoListing]
    /\ result = NoResult

\* No manager call is in progress.
TasksIdle ==
    /\ lock = "none"
    /\ pc = [t \in Tasks |-> "idle"]
    /\ arg = [t \in Tasks |-> NoArg]
    /\ ret = [t \in Tasks |-> NoError]
    /\ local = [t \in Tasks |-> ChannelState_new(<<>>, <<>>)]

Init ==
    /\ config \in Configs
    /\ channel = MarketplaceChannel_new(config)
    /\ last = [op |-> "new", signed |-> NoSigned, err |-> NoError]
    /\ channels = <<>>
    /\ storage = <<>>
    /\ base = <<>>
    /\ TasksIdle
    /\ MarketIdle

Activate ==
    /\ channel' = activate(channel).channel
    /\ last' = Returned("activate", NoSigned, activate(channel))
    /\ UNCHANGED <<config, managerVars, marketVars>>

InitiateClose ==
    /\ channel' = initiate_close(channel).channel
    /\ last' = Returned("initiate_close", NoSigned, initiate_close(channel))
    /\ UNCHANGED <<config, managerVars, marketVars>>

\* apply_update with any nonce and any set of signatures.
ApplyUpdate ==
    /\ channel.state.nonce < MaxNonce
    /\ \E signed \in GateInputs(channel) :
          LET out == apply_update(channel, signed)
          IN  /\ channel' = out.channel
              /\ last' = Returned("apply_update", signed, out)
    /\ UNCHANGED <<config, managerVars, marketVars>>

\* apply_update with an update both parties signed for the next nonce.
ApplySigned ==
    /\ channel.state.nonce < MaxNonce
    /\ \E signed \in RuleInputs(channel) :
          LET out == apply_update(channel, signed)
          IN  /\ channel' = out.channel
              /\ last' = Returned("apply_update", signed, out)
    /\ UNCHANGED <<config, managerVars, marketVars>>

Next == ApplyUpdate \/ Activate \/ InitiateClose

Spec == Init /\ [][Next]_vars

NextRules == ApplySigned \/ Activate \/ InitiateClose

SpecRules == Init /\ [][NextRules]_vars

(***************************************************************************)
(* marketplace/src/manager.rs, marketplace/src/storage.rs                  *)
(***************************************************************************)
ChannelNotFound == [kind |-> "ChannelNotFound", required |-> 0, available |-> 0]

\* HashMap::insert / sled Tree::insert: the value under the key is replaced.
Put(map, key, value) ==
    [k \in (DOMAIN map) \cup {key} |-> IF k = key THEN value ELSE map[k]]

\* store_channel: the record of the channel under its channel_id.
store_channel(store, ch) == Put(store, ch.channel_id, ch)

\* A lock that is granted whoever holds it.
write_lock_always(holder) == TRUE

\* RwLock::write is granted only while no other task holds the lock.
write_lock_free(holder) == holder = "none"

\* The updates the two tasks may carry.
TaskUpdates ==
    {Transfer("A", "B", 1), Transfer("B", "A", MaxAmount + 1),
     CreateListing(Listing("l1", "A", TRUE))}

\* The id of a channel the manager does not hold.
UnknownChannelId == hash_data(serialize_participants(<<"B", "X">>))

\* The calls a task may make on channel ch: each update signed by both parties
\* for the next nonce, one signed for the nonce after, one signed by the first
\* party alone, and one for a channel the manager does not hold.
TaskArgs(ch) ==
    {[channel_id |-> ch.channel_id,
      signed_update |-> SignedBy(u, ch.state.nonce + 1, Range(ch.participants))] :
        u \in TaskUpdates}
    \cup {[channel_id |-> ch.channel_id,
           signed_update |->
               SignedBy(Transfer("A", "B", 1), ch.state.nonce + 2, Range(ch.participants))],
          [channel_id |-> ch.channel_id,
           signed_update |->
               SignedBy(Transfer("A", "B", 1), ch.state.nonce + 1, {ch.participants[1]})],
          [channel_id |-> UnknownChannelId,
           signed_update |->
               SignedBy(Transfer("A", "B", 1), ch.state.nonce + 1, Range(ch.participants))]}

NoState == ChannelState_new(<<>>, <<>>)

\* The manager after create_channel(config) and activate_channel have returned.
InitManager ==
    /\ config \in Configs
    /\ channel = MarketplaceChannel_new(config)
    /\ last = [op |-> "new", signed |-> NoSigned, err |-> NoError]
    /\ channels = store_channel(<<>>, activate(MarketplaceChannel_new(config)).channel)
    /\ storage = channels
    /\ base = channels
    /\ lock = "none"
    /\ pc = [t \in Tasks |-> "idle"]
    /\ arg = [t \in Tasks |-> NoArg]
    /\ ret = [t \in Tasks |-> NoError]
    /\ local = [t \in Tasks |-> NoState]
    /\ MarketIdle

\* Two tasks call apply_state_update on the manager's channel at the same time.
InvokePair ==
    /\ \A t \in Tasks : pc[t] = "idle"
    /\ \E id \in DOMAIN channels :
          /\ channels[id].state.nonce < MaxNonce
          /\ arg' \in [Tasks -> TaskArgs(channels[id])]
    /\ pc' = [t \in Tasks |-> "acquire"]
    /\ ret' = [t \in Tasks |-> NoError]
    /\ local' = [t \in Tasks |-> NoState]
    /\ base' = channels
    /\ UNCHANGED <<marketVars, channelVars, channels, storage, lock>>

\* self.channels.write().await
Acquire(t) ==
    /\ pc[t] = "acquire"
    /\ write_lock_free(lock)
    /\ lock' = t
    /\ pc' = [pc EXCEPT ![t] = "locked"]
    /\ UNCHANGED <<marketVars, channelVars, channels, storage, arg, ret, local, base>>

\* channels.get_mut(channel_id), then the checks of apply_update and the new
\* state it computes from a clone. An error returns and drops the guard.
Check(t) ==
    /\ pc[t] = "locked"
    /\ LET id == arg[t].channel_id
           out == apply_update(channels[id], arg[t].signed_update)
           failed == IF id \notin DOMAIN channels THEN ChannelNotFound ELSE out.err
       IN  IF failed # NoError
           THEN /\ ret' = [ret EXCEPT ![t] = failed]
                /\ pc' = [pc EXCEPT ![t] = "done"]
                /\ lock' = "none"
                /\ UNCHANGED local
           ELSE /\ local' = [local EXCEPT ![t] = out.channel.state]
                /\ pc' = [pc EXCEPT ![t] = "commit"]
                /\ UNCHANGED <<ret, lock>>
    /\ UNCHANGED <<marketVars, channelVars, channels, storage, arg, base>>

\* self.state = new_state, state_history.push(signed_update), store_channel,
\* and the return that drops the guard.
Commit(t) ==
    /\ pc[t] = "commit"
    /\ LET id == arg[t].channel_id
           ch == [channels[id] EXCEPT
                     !.state = local[t],
                     !.state_history = Append(channels[id].state_history,
                                              arg[t].signed_update)]
       IN  /\ channels' = Put(channels, id, ch)
           /\ storage' = store_channel(storage, ch)
    /\ ret' = [ret EXCEPT ![t] = NoError]
    /\ pc' = [pc EXCEPT ![t] = "done"]
    /\ lock' = "none"
    /\ UNCHANGED <<marketVars, channelVars, arg, local, base>>

\* Both calls have returned to their callers.
Finish ==
    /\ \A t \in Tasks : pc[t] = "done"
    /\ pc' = [t \in Tasks |-> "idle"]
    /\ UNCHANGED <<marketVars, channelVars, channels, storage, lock, arg, ret, local, base>>

NextManager ==
    \/ InvokePair
    \/ \E t \in Tasks : Acquire(t)
    \/ \E t \in Tasks : Check(t)
    \/ \E t \in Tasks : Commit(t)
    \/ Finish

SpecManager == InitManager /\ [][NextManager]_vars

(***************************************************************************)
(* Properties.                                                             *)
(***************************************************************************)
RECURSIVE SumSeq(_)
SumSeq(seq) == IF seq = <<>> THEN 0 ELSE Head(seq) + SumSeq(Tail(seq))

\* The amounts of the orders that are Pending, Confirmed or Shipping.
InFlightAmount(state) ==
    SumSeq([i \in 1..Len(state.orders) |->
               IF state.orders[i].status \in {"Pending", "Confirmed", "Shipping"}
               THEN state.orders[i].amount ELSE 0])

\* The last call was an apply_update that returned `kind`.
LastApply(kind) == last.op = "apply_update" /\ last.err.kind = kind

\* C1. Conservation: in every reachable state of a channel, the sum of the
\* balances plus the amounts of the orders in status Pending, Confirmed or
\* Shipping equals the channel's collateral.
C1_Conservation ==
    SumBalances(channel.state.balances) + InFlightAmount(channel.state) = channel.collateral

\* C2. Every entry of state_history is signed by exactly the channel's
\* participants, and each of its signatures verifies under its signer's key
\* over serialize(update) followed by the little-endian nonce.
C2_HistorySignedByParticipants ==
    \A i \in 1..Len(channel.state_history) :
        LET s == channel.state_history[i]
        IN  /\ DOMAIN s.signatures = Range(channel.participants)
            /\ \A k \in DOMAIN s.signatures :
                  verify_signature(k, signing_message(s.update, s.nonce), s.signatures[k])

\* C3. Whenever apply_update returns an error, the channel (state, status and
\* state_history) is exactly what it was before the call.
C3_FailedApplyLeavesChannel ==
    [][(last'.op = "apply_update" /\ last'.err # NoError) => channel' = channel]_vars

\* An apply_update has just failed in a transition rule of an Active channel
\* that holds a listing already.
C3_Witness ==
    /\ LastApply("InvalidStateTransition")
    /\ channel.status = "Active"
    /\ last.signed.nonce = channel.state.nonce + 1
    /\ Len(channel.state.listings) > 0

\* C5. state.nonce equals the number of entries of state_history, and the
\* k-th entry carries nonce k.
C5_NonceCountsHistory ==
    /\ channel.state.nonce = Len(channel.state_history)
    /\ \A k \in 1..Len(channel.state_history) : channel.state_history[k].nonce = k

\* Two updates were applied, and a replayed or skipped nonce was just refused.
C5_Witness ==
    /\ Len(channel.state_history) >= 2
    /\ LastApply("InvalidStateTransition")

\* A participant's signature is missing from the update or does not verify.
ParticipantSignatureMissingOrInvalid(ch, signed) ==
    \E p \in Range(ch.participants) :
        \/ p \notin DOMAIN signed.signatures
        \/ ~verify_signature(p, signing_message(signed.update, signed.nonce),
                             signed.signatures[p])

C7_OnlyActiveChanges ==
    /\ [](channel.status = "Opening" =>
            /\ channel.state = ChannelState_new(config.participants, config.initial_balances)
            /\ channel.state_history = <<>>)
    /\ [][channel.status \in {"Closing", "Challenged", "Closed"} =>
            /\ channel'.status \in {"Closing", "Challenged", "Closed"}
            /\ channel'.state = channel.state
            /\ channel'.state_history = channel.state_history
            /\ get_state_root(channel') = get_state_root(channel)]_vars

\* A fully signed update with the next nonce was offered to a Closing channel
\* that had applied updates before.
C7_Witness ==
    /\ channel.status = "Closing"
    /\ Len(channel.state_history) > 0
    /\ last.op = "apply_update"
    /\ last.signed.nonce = channel.state.nonce + 1
    /\ verify(last.signed, channel.participants)

\* The update of the step's apply_update reached the transition rules: the
\* channel was Active, the nonce the next one and the signatures complete.
ReachedRule(type) ==
    /\ last'.op = "apply_update"
    /\ last'.signed.update.type = type
    /\ channel.status = "Active"
    /\ last'.signed.nonce = channel.state.nonce + 1
    /\ verify(last'.signed, channel.participants)

BalanceKeys == DOMAIN channel.state.balances \cup DOMAIN channel'.state.balances

\* The step debited `payer` and credited `payee` by `amount` and left every
\* other balance and the total of the balances.
Moved(payer, payee, amount) ==
    /\ \A k \in BalanceKeys :
          get_balance(channel'.state, k) =
              get_balance(channel.state, k)
                  - (IF k = payer THEN amount ELSE 0) + (IF k = payee THEN amount ELSE 0)
    /\ SumBalances(channel'.state.balances) = SumBalances(channel.state.balances)

BalancesUnchanged ==
    \A k \in BalanceKeys : get_balance(channel'.state, k) = get_balance(channel.state, k)

\* C8. Transfer{from, to, amount} on a state with balances[from] >= amount
\* debits from and credits to by amount, leaving the other balances, the
\* listings, the orders and the total of the balances unchanged; with
\* balances[from] < amount it fails with InsufficientBalance{amount, balances[from]}.
C8_Transfer ==
    [][ReachedRule("Transfer") =>
        LET u == last'.signed.update
            available == get_balance(channel.state, u.from)
        IN  IF available >= u.amount
            THEN /\ last'.err = NoError
                 /\ Moved(u.from, u.to, u.amount)
                 /\ channel'.state.listings = channel.state.listings
                 /\ channel'.state.orders = channel.state.orders
            ELSE last'.err = InsufficientBalance(u.amount, available)]_vars

\* C9. CreateOrder{order} succeeds exactly when the state holds an active
\* listing with id order.listing_id and balances[order.buyer] >= order.amount;
\* on success the order is appended and no balance changes; otherwise it fails
\* and no order is added.
C9_CreateOrder ==
    [][ReachedRule("CreateOrder") =>
        LET order == last'.signed.update.order
            listed == \E i \in 1..Len(channel.state.listings) :
                         /\ channel.state.listings[i].id = order.listing_id
                         /\ channel.state.listings[i].active
            funded == get_balance(channel.state, order.buyer) >= order.amount
        IN  /\ last'.err = NoError <=> (listed /\ funded)
            /\ last'.err = NoError =>
                  /\ channel'.state.orders = Append(channel.state.orders, order)
                  /\ BalancesUnchanged
            /\ last'.err # NoError => channel'.state.orders = channel.state.orders]_vars

\* A CreateOrder was applied by a buyer who holds funds.
C9_Witness ==
    /\ LastApply("Ok")
    /\ last.signed.update.type = "CreateOrder"
    /\ Len(channel.state.orders) > 0
    /\ get_balance(channel.state, last.signed.update.order.buyer) > 0

\* C10. UpdateOrderStatus{order_id, status} moves funds only when it takes an
\* existing order from a non-Completed status into Completed: then the buyer
\* is debited and the seller credited by order.amount; every other status
\* change only rewrites the order's status; an unknown order_id fails with
\* InvalidStateTransition.
C10_UpdateOrderStatus ==
    [][ReachedRule("UpdateOrderStatus") =>
        LET u == last'.signed.update
            found == OrderIndices(channel.state, u.order_id)
        IN  IF found = {}
            THEN last'.err = InvalidStateTransition
            ELSE LET idx == Min(found)
                     order == channel.state.orders[idx]
                     completes == u.status = "Completed" /\ order.status # "Completed"
                 IN  /\ ~completes => last'.err = NoError
                     /\ last'.err = NoError =>
                           /\ channel'.state.orders =
                                 [channel.state.orders EXCEPT ![idx].status = u.status]
                           /\ IF completes
                              THEN Moved(order.buyer, order.seller, order.amount)
                              ELSE BalancesUnchanged]_vars

\* Both tasks' calls have returned; they were made on the same channel the
\* manager held, each with the nonce after that channel's and with the
\* signatures of all its participants.
SameNonceRace(id) ==
    /\ \A t \in Tasks : pc[t] = "done"
    /\ id \in DOMAIN base
    /\ \A t \in Tasks :
          /\ arg[t].channel_id = id
          /\ arg[t].signed_update.nonce = base[id].state.nonce + 1
          /\ verify(arg[t].signed_update, base[id].participants)

\* One call succeeded, the other failed with InvalidStateTransition, and the
\* channel gained one nonce and one history entry.
OneWinner(id) ==
    /\ \E w \in Tasks :
          /\ ret[w] = NoError
          /\ \A t \in Tasks \ {w} : ret[t] = InvalidStateTransition
    /\ channels[id].state.nonce = base[id].state.nonce + 1
    /\ Len(channels[id].state_history) = Len(base[id].state_history) + 1

\* The update's own rule accepts the channel's state as the calls found it.
Applicable(id, t) == apply(arg[t].signed_update.update, base[id].state).err = NoError

RECURSIVE TotalOf(_, _)
TotalOf(f, S) ==
    IF S = {} THEN 0
    ELSE LET k == CHOOSE x \in S : TRUE IN f[k] + TotalOf(f, S \ {k})

\* The place of a status on the path Opening, Active, Closing.
StatusRank(status) ==
    CASE status = "Opening" -> 1
      [] status = "Active" -> 2
      [] status = "Closing" -> 3

\* C11: a new channel is Opening with collateral the sum of the initial
\* balances; activate succeeds exactly from Opening and gives Active;
\* initiate_close succeeds exactly from Active and gives Closing; from any other
\* status each fails with InvalidChannelState and leaves the status; the status
\* never moves back along Opening, Active, Closing.
C11_Lifecycle ==
    /\ [](last.op = "new" =>
            /\ channel.status = "Opening"
            /\ channel.collateral =
                  TotalOf(config.initial_balances, DOMAIN config.initial_balances))
    /\ [][/\ last'.op = "activate" =>
               IF channel.status = "Opening"
               THEN last'.err = NoError /\ channel'.status = "Active"
               ELSE /\ last'.err = InvalidChannelState
                    /\ channel'.status = channel.status
          /\ last'.op = "initiate_close" =>
               IF channel.status = "Active"
               THEN last'.err = NoError /\ channel'.status = "Closing"
               ELSE /\ last'.err = InvalidChannelState
                    /\ channel'.status = channel.status
          /\ StatusRank(channel'.status) >= StatusRank(channel.status)]_vars

\* initiate_close was refused on a channel that went through Active to Closing.
C11_Witness ==
    /\ channel.status = "Closing"
    /\ Len(channel.state_history) > 0
    /\ last.op = "initiate_close"
    /\ last.err = InvalidChannelState

(***************************************************************************)
(* marketplace/src/manager.rs: the channel operations of the manager.      *)
(***************************************************************************)
ChannelAlreadyExists == [kind |-> "ChannelAlreadyExists", required |-> 0, available |-> 0]

\* The two parties listed in either order.
ManagerParticipants == {<<"A", "B">>, <<"B", "A">>}

ManagerConfigs ==
    {[participants |-> ps, initial_balances |-> [k \in Range(ps) |-> b],
      challenge_period |-> 3600] : ps \in ManagerParticipants, b \in 1..MaxAmount}

\* A map that is never found to hold a key.
contains_key_never(map, key) == FALSE

\* HashMap::contains_key
contains_key(map, key) == key \in DOMAIN map

Called(op, args, e) == [op |-> op, args |-> args, ret |-> e]

\* The updates a caller hands to apply_state_update on channel ch.
ManagerInputs(ch) ==
    {SignedBy(Transfer("A", "B", 1), ch.state.nonce + 1, Range(ch.participants)),
     SignedBy(Transfer("A", "B", 1), ch.state.nonce + 1, {ch.participants[1]})}

InitChannels ==
    /\ config = CHOOSE cfg \in ManagerConfigs : TRUE
    /\ channel = MarketplaceChannel_new(config)
    /\ last = [op |-> "new", signed |-> NoSigned, err |-> NoError]
    /\ channels = <<>>
    /\ storage = <<>>
    /\ base = <<>>
    /\ TasksIdle
    /\ MarketIdle

\* create_channel up to drop(channels): the channel is built, refused when its
\* id is held, inserted otherwise. The call returns what `result` records once
\* its store_channel has run.
CreateChannel ==
    /\ \E cfg \in ManagerConfigs :
          LET ch == MarketplaceChannel_new(cfg)
          IN  IF contains_key(channels, ch.channel_id)
              THEN /\ result' = Called("create_channel", <<cfg>>, ChannelAlreadyExists)
                   /\ UNCHANGED <<channels, creating>>
              ELSE /\ channels' = Put(channels, ch.channel_id, ch)
                   /\ creating' = creating \cup {ch}
                   /\ result' = Called("create_channel", <<cfg>>, NoError)
    /\ UNCHANGED <<channelVars, storage, lock, pc, arg, ret, local, base,
                   escrow_contracts, now, overflow_checks, guards, locked_collateral, global_listings,
                   listings, receiving>>

\* create_channel after drop(channels): self.storage.store_channel(&channel).
StoreCreated ==
    /\ \E ch \in creating :
          /\ storage' = store_channel(storage, ch)
          /\ creating' = creating \ {ch}
          /\ result' = Called("store_channel", <<ch.channel_id>>, NoError)
    /\ UNCHANGED <<channelVars, channels, lock, pc, arg, ret, local, base,
                   escrow_contracts, now, overflow_checks, guards, locked_collateral, global_listings,
                   listings, receiving>>

\* A channel operation of the manager: under the write-lock, get_mut, the
\* channel's method, and store_channel when the method succeeded.
ChannelCall(op, args, id, out) ==
    /\ IF ~contains_key(channels, id)
       THEN /\ result' = Called(op, args, ChannelNotFound)
            /\ UNCHANGED <<channels, storage>>
       ELSE IF out.err # NoError
       THEN /\ result' = Called(op, args, out.err)
            /\ UNCHANGED <<channels, storage>>
       ELSE /\ channels' = Put(channels, id, out.channel)
            /\ storage' = store_channel(storage, out.channel)
            /\ result' = Called(op, args, NoError)
    /\ UNCHANGED <<channelVars, lock, pc, arg, ret, local, base, creating,
                   escrow_contracts, now, overflow_checks, guards, locked_collateral, global_listings,
                   listings, receiving>>

ActivateChannel ==
    \E id \in DOMAIN channels \cup {UnknownChannelId} :
        ChannelCall("activate_channel", <<id>>, id, activate(channels[id]))

CloseChannel ==
    \E id \in DOMAIN channels \cup {UnknownChannelId} :
        ChannelCall("close_channel", <<id>>, id, initiate_close(channels[id]))

ApplyStateUpdate ==
    \E id \in DOMAIN channels :
        /\ channels[id].state.nonce < MaxNonce
        /\ \E signed \in ManagerInputs(channels[id]) :
              ChannelCall("apply_state_update", <<id, signed>>, id,
                          apply_update(channels[id], signed))

NextChannels ==
    \/ CreateChannel
    \/ StoreCreated
    \/ ActivateChannel
    \/ CloseChannel
    \/ ApplyStateUpdate

SpecChannels == InitChannels /\ [][NextChannels]_vars

\* Some channel the manager holds has the participants list of cfg.
HoldsParticipants(cfg) ==
    \E id \in DOMAIN channels : channels[id].participants = cfg.participants

\* C12: create_channel with the participants list of a channel the manager
\* holds fails with ChannelAlreadyExists and changes neither the channels in
\* memory nor those in storage, whatever was done to the existing channel.
C12_DuplicateCreate ==
    [][(result'.op = "create_channel" /\ HoldsParticipants(result'.args[1])) =>
          /\ result'.ret = ChannelAlreadyExists
          /\ channels' = channels
          /\ storage' = storage]_vars

\* A create_channel was refused for a channel that had been activated and updated.
C12_Witness ==
    /\ result.op = "create_channel"
    /\ result.ret = ChannelAlreadyExists
    /\ \E id \in DOMAIN channels :
          /\ channels[id].participants = result.args[1].participants
          /\ Len(channels[id].state_history) > 0
          /\ storage[id] = channels[id]

\* C13: the manager holds at most one channel for a pair of participants,
\* whatever the order in which the config lists the two keys.
C13_OneChannelPerPair ==
    \A i, j \in DOMAIN channels :
        Range(channels[i].participants) = Range(channels[j].participants) => i = j

(***************************************************************************)
(* marketplace/src/escrow.rs                                               *)
(***************************************************************************)
\* The last second the clock is followed to.
MaxTime == 3

EscrowStatus ==
    {"Created", "Funded", "Shipped", "Completed", "RefundRequested", "Refunded",
     "Disputed", "Cancelled"}

\* Hash::random(): the ids an escrow may be given.
EscrowIds == {"e1", "e2"}

\* L2Error::Unknown(message).
Unknown(message) ==
    [kind |-> "Unknown", required |-> 0, available |-> 0, message |-> message]

\* A panic unwinding out of the call.
Panicked == [kind |-> "panic", required |-> 0, available |-> 0]

\* u64 - u64 where overflow is not checked: the difference modulo 2^64.
wrapping_sub(a, b) == IF a >= b THEN a - b ELSE U64Max - (b - a) + 1

\* u64 - u64 overflows.
sub_overflows(a, b) == a < b

\* EscrowContract::new at clock reading t, with the id drawn for it.
EscrowContract_new(id, listing_id, buyer, seller, amount, timeout_period, t) ==
    [id |-> id, listing_id |-> listing_id, buyer |-> buyer, seller |-> seller,
     amount |-> amount, status |-> "Created", created_at |-> t, updated_at |-> t,
     timeout_period |-> timeout_period, l1_tx_id |-> "None",
     tracking_info |-> "None", dispute_reason |-> "None"]

\* is_timed_out panics: the subtraction overflows in a build that checks it.
is_timed_out_panics(self, t, checks) ==
    self.status = "Shipped" /\ checks /\ sub_overflows(t, self.updated_at)

\* is_timed_out at clock reading t, where it does not panic.
is_timed_out(self, t) ==
    IF self.status # "Shipped"
    THEN FALSE
    ELSE wrapping_sub(t, self.updated_at) > self.timeout_period

\* The Result<(), String> of a &mut self method with the escrow it leaves.
EscrowOutcome(e, escrow) == [err |-> e, escrow |-> escrow]

fund(self, l1_tx_id, t) ==
    IF self.status # "Created"
    THEN EscrowOutcome(Unknown("Cannot fund escrow"), self)
    ELSE EscrowOutcome(NoError, [self EXCEPT !.status = "Funded",
                                             !.l1_tx_id = l1_tx_id,
                                             !.updated_at = t])

mark_shipped(self, tracking_info, t) ==
    IF self.status # "Funded"
    THEN EscrowOutcome(Unknown("Cannot ship"), self)
    ELSE EscrowOutcome(NoError, [self EXCEPT !.status = "Shipped",
                                             !.tracking_info = tracking_info,
                                             !.updated_at = t])

\* confirm_receipt that completes the escrow whatever its status.
confirm_receipt_unchecked(self, t) ==
    EscrowOutcome(NoError, [self EXCEPT !.status = "Completed", !.updated_at = t])

confirm_receipt(self, t) ==
    IF self.status # "Shipped"
    THEN EscrowOutcome(Unknown("Cannot confirm"), self)
    ELSE EscrowOutcome(NoError, [self EXCEPT !.status = "Completed", !.updated_at = t])

request_refund(self, reason, t) ==
    IF self.status # "Funded" /\ self.status # "Shipped"
    THEN EscrowOutcome(Unknown("Cannot refund"), self)
    ELSE EscrowOutcome(NoError, [self EXCEPT !.status = "RefundRequested",
                                             !.dispute_reason = reason,
                                             !.updated_at = t])

approve_refund(self, t) ==
    IF self.status # "RefundRequested"
    THEN EscrowOutcome(Unknown("Cannot refund"), self)
    ELSE EscrowOutcome(NoError, [self EXCEPT !.status = "Refunded", !.updated_at = t])

\* raise_dispute that refuses no status.
raise_dispute_always(self, reason, t) ==
    EscrowOutcome(NoError, [self EXCEPT !.status = "Disputed",
                                        !.dispute_reason = reason,
                                        !.updated_at = t])

raise_dispute(self, reason, t) ==
    IF self.status = "Completed" \/ self.status = "Refunded" \/ self.status = "Cancelled"
    THEN EscrowOutcome(Unknown("Cannot dispute"), self)
    ELSE EscrowOutcome(NoError, [self EXCEPT !.status = "Disputed",
                                             !.dispute_reason = reason,
                                             !.updated_at = t])

\* auto_release at clock reading t, where is_timed_out does not panic.
auto_release(self, t) ==
    IF ~is_timed_out(self, t)
    THEN EscrowOutcome(Unknown("Escrow has not timed out yet"), self)
    ELSE EscrowOutcome(NoError, [self EXCEPT !.status = "Completed", !.updated_at = t])

(***************************************************************************)
(* marketplace/src/manager.rs: escrow management.                          *)
(***************************************************************************)
\* The loop of process_escrow_timeouts over the ids of `order` at clock reading
\* t: the escrows it leaves, the ids it released, and whether it panicked.
RECURSIVE process_from(_, _, _, _, _)
process_from(escrows, released, order, t, checks) ==
    IF order = <<>>
    THEN [escrows |-> escrows, released |-> released, err |-> NoError]
    ELSE LET escrow_id == Head(order)
             escrow == escrows[escrow_id]
         IN  IF is_timed_out_panics(escrow, t, checks)
             THEN [escrows |-> escrows, released |-> released, err |-> Panicked]
             ELSE IF is_timed_out(escrow, t) /\ auto_release(escrow, t).err = NoError
             THEN process_from(Put(escrows, escrow_id, auto_release(escrow, t).escrow),
                               Append(released, escrow_id), Tail(order), t, checks)
             ELSE process_from(escrows, released, Tail(order), t, checks)

InitEscrow ==
    /\ config = CHOOSE cfg \in ManagerConfigs : TRUE
    /\ channel = MarketplaceChannel_new(config)
    /\ last = [op |-> "new", signed |-> NoSigned, err |-> NoError]
    /\ channels = <<>>
    /\ storage = <<>>
    /\ base = <<>>
    /\ TasksIdle
    /\ creating = {}
    /\ escrow_contracts = <<>>
    /\ now = 0
    /\ overflow_checks \in BOOLEAN
    /\ locked_collateral = <<>>
    /\ guards = [t \in Tasks |-> {}]
    /\ global_listings = <<>>
    /\ listings = <<>>
    /\ receiving = [t \in Tasks |-> NoListing]
    /\ result = NoResult

\* What an escrow operation leaves alone.
escrowFrame ==
    <<channelVars, managerVars, creating, now, overflow_checks, guards, locked_collateral, global_listings,
      listings, receiving>>

\* chrono::Utc::now() reads one second later.
ClockAdvance ==
    /\ now < MaxTime
    /\ now' = now + 1
    /\ result' = Called("clock", <<>>, NoError)
    /\ UNCHANGED <<channelVars, managerVars, creating, escrow_contracts,
                   overflow_checks, guards, locked_collateral, global_listings, listings, receiving>>

\* The system clock is set back by one second.
ClockStepBack ==
    /\ now > 0
    /\ now' = now - 1
    /\ result' = Called("clock", <<>>, NoError)
    /\ UNCHANGED <<channelVars, managerVars, creating, escrow_contracts,
                   overflow_checks, guards, locked_collateral, global_listings, listings, receiving>>

CreateEscrow(id) ==
    /\ ~contains_key(escrow_contracts, id)
    /\ escrow_contracts' =
          Put(escrow_contracts, id, EscrowContract_new(id, "l1", "B", "A", 1, 1, now))
    /\ result' = Called("create_escrow", <<id>>, NoError)
    /\ UNCHANGED escrowFrame

\* An escrow operation of the manager: under the write-lock, get_mut, then the
\* contract's method, its Err(String) mapped to L2Error::Unknown.
EscrowCall(op, id, out) ==
    IF ~contains_key(escrow_contracts, id)
    THEN /\ result' = Called(op, <<id>>, Unknown("Escrow not found"))
         /\ UNCHANGED escrow_contracts
    ELSE /\ escrow_contracts' = Put(escrow_contracts, id, out.escrow)
         /\ result' = Called(op, <<id>>, out.err)

FundEscrow(id) ==
    /\ EscrowCall("fund", id, fund(escrow_contracts[id], "tx1", now))
    /\ UNCHANGED escrowFrame

ShipOrder(id) ==
    /\ EscrowCall("mark_shipped", id, mark_shipped(escrow_contracts[id], "None", now))
    /\ UNCHANGED escrowFrame

ConfirmDelivery(id) ==
    /\ EscrowCall("confirm_receipt", id, confirm_receipt(escrow_contracts[id], now))
    /\ UNCHANGED escrowFrame

RequestRefund(id) ==
    /\ EscrowCall("request_refund", id, request_refund(escrow_contracts[id], "late", now))
    /\ UNCHANGED escrowFrame

ApproveRefund(id) ==
    /\ EscrowCall("approve_refund", id, approve_refund(escrow_contracts[id], now))
    /\ UNCHANGED escrowFrame

RaiseDispute(id) ==
    /\ EscrowCall("raise_dispute", id, raise_dispute(escrow_contracts[id], "broken", now))
    /\ UNCHANGED escrowFrame

\* get_escrow, then auto_release on the contract it returned.
AutoRelease(id) ==
    /\ contains_key(escrow_contracts, id)
    /\ LET escrow == escrow_contracts[id]
       IN  result' =
             IF is_timed_out_panics(escrow, now, overflow_checks)
             THEN [op |-> "auto_release", args |-> <<id>>, ret |-> Panicked,
                   escrow |-> escrow]
             ELSE [op |-> "auto_release", args |-> <<id>>,
                   ret |-> auto_release(escrow, now).err,
                   escrow |-> auto_release(escrow, now).escrow]
    /\ UNCHANGED <<escrowFrame, escrow_contracts>>

\* process_escrow_timeouts, the map iterated in any of its orders. A panic
\* unwinds out of the loop and keeps what the loop had released.
ProcessEscrowTimeouts ==
    /\ \E order \in Orderings(DOMAIN escrow_contracts) :
          LET done == process_from(escrow_contracts, <<>>, order, now, overflow_checks)
          IN  /\ escrow_contracts' = done.escrows
              /\ result' = [op |-> "process_escrow_timeouts", args |-> <<>>,
                            ret |-> done.err, released |-> done.released]
    /\ UNCHANGED escrowFrame

\* One escrow contract, every operation on it.
ContractIds == {"e1"}

NextEscrow ==
    \/ ClockAdvance
    \/ ClockStepBack
    \/ \E id \in ContractIds : CreateEscrow(id)
    \/ \E id \in ContractIds : FundEscrow(id)
    \/ \E id \in ContractIds : ShipOrder(id)
    \/ \E id \in ContractIds : ConfirmDelivery(id)
    \/ \E id \in ContractIds : RequestRefund(id)
    \/ \E id \in ContractIds : ApproveRefund(id)
    \/ \E id \in ContractIds : RaiseDispute(id)
    \/ \E id \in ContractIds : AutoRelease(id)
    \/ ProcessEscrowTimeouts

SpecEscrow == InitEscrow /\ [][NextEscrow]_vars

\* Several escrows on their way to Shipped, and the timeout sweep.
NextTimeouts ==
    \/ ClockAdvance
    \/ ClockStepBack
    \/ \E id \in EscrowIds : CreateEscrow(id)
    \/ \E id \in EscrowIds : FundEscrow(id)
    \/ \E id \in EscrowIds : ShipOrder(id)
    \/ ProcessEscrowTimeouts

SpecTimeouts == InitEscrow /\ [][NextTimeouts]_vars

(***************************************************************************)
(* Escrow properties.                                                      *)
(***************************************************************************)
\* The transitions of the escrow table: event, status before, status after.
Allowed(op, from, to) ==
    \/ op = "fund" /\ from = "Created" /\ to = "Funded"
    \/ op = "mark_shipped" /\ from = "Funded" /\ to = "Shipped"
    \/ op \in {"confirm_receipt", "auto_release", "process_escrow_timeouts"}
          /\ from = "Shipped" /\ to = "Completed"
    \/ op = "request_refund" /\ from \in {"Funded", "Shipped"} /\ to = "RefundRequested"
    \/ op = "approve_refund" /\ from = "RefundRequested" /\ to = "Refunded"
    \/ op = "raise_dispute" /\ from \in {"Funded", "Shipped", "RefundRequested"}
          /\ to = "Disputed"
    \/ op = "cancel" /\ from = "Created" /\ to = "Cancelled"

\* The events a caller aims at one escrow of the manager.
EscrowEvents ==
    {"fund", "mark_shipped", "confirm_receipt", "request_refund", "approve_refund",
     "raise_dispute"}

Terminal == {"Completed", "Refunded", "Cancelled"}

\* The escrow has been Shipped for longer than its timeout_period at clock reading t.
ShippedTooLong(escrow, t) ==
    escrow.status = "Shipped" /\ t - escrow.updated_at > escrow.timeout_period

\* C14: an escrow's status changes only along the transitions of the table,
\* and every other event on every other status fails with
\* InvalidStateTransition and leaves the escrow unchanged.
C14_EscrowTransitions ==
    [][\A id \in DOMAIN escrow_contracts :
          LET before == escrow_contracts[id]
              after == escrow_contracts'[id]
          IN  /\ after.status # before.status =>
                    Allowed(result'.op, before.status, after.status)
              /\ (/\ result'.op \in EscrowEvents
                   /\ result'.args = <<id>>
                   /\ ~\E to \in EscrowStatus : Allowed(result'.op, before.status, to)) =>
                    /\ result'.ret = InvalidStateTransition
                    /\ after = before]_vars

\* C15: once an escrow is Completed, Refunded or Cancelled, every later event
\* fails or skips it and none of its fields changes again.
C15_TerminalStatuses ==
    [][\A id \in DOMAIN escrow_contracts :
          escrow_contracts[id].status \in Terminal =>
              /\ escrow_contracts'[id] = escrow_contracts[id]
              /\ (result'.op \in EscrowEvents \cup {"auto_release"}
                   /\ result'.args = <<id>>) => result'.ret # NoError
              /\ result'.op = "process_escrow_timeouts" =>
                    id \notin Range(result'.released)]_vars

\* A dispute was refused on an escrow that is Completed or Refunded.
C15_Witness ==
    /\ result.op = "raise_dispute"
    /\ result.ret # NoError
    /\ \E id \in DOMAIN escrow_contracts :
          /\ result.args = <<id>>
          /\ escrow_contracts[id].status \in Terminal

\* C16: some operation moves a Created escrow to Cancelled.
C16_CancelFromCreated ==
    \A id \in DOMAIN escrow_contracts :
        escrow_contracts[id].status = "Created" =>
            ENABLED (NextEscrow /\ escrow_contracts'[id].status = "Cancelled")

\* C17: is_timed_out holds exactly when the escrow is Shipped and now minus
\* updated_at exceeds timeout_period, a clock behind updated_at included, and
\* auto_release succeeds, setting Completed, exactly then.
C17_TimedOut ==
    [][result'.op = "auto_release" =>
          LET escrow == escrow_contracts[result'.args[1]]
          IN  /\ result'.ret # Panicked
              /\ is_timed_out(escrow, now) <=> ShippedTooLong(escrow, now)
              /\ result'.ret = NoError <=> ShippedTooLong(escrow, now)
              /\ result'.ret = NoError => result'.escrow.status = "Completed"]_vars

\* C18: process_escrow_timeouts returns exactly the ids of the escrows Shipped
\* for longer than their timeout_period, each Completed afterwards; every other
\* escrow is unchanged; a call repeated at once returns an empty list.
C18_ProcessTimeouts ==
    [][result'.op = "process_escrow_timeouts" =>
          LET due == {id \in DOMAIN escrow_contracts :
                         ShippedTooLong(escrow_contracts[id], now)}
          IN  /\ result'.ret = NoError
              /\ Range(result'.released) = due
              /\ Len(result'.released) = Cardinality(due)
              /\ \A id \in due : escrow_contracts'[id].status = "Completed"
              /\ \A id \in DOMAIN escrow_contracts \ due :
                    escrow_contracts'[id] = escrow_contracts[id]
              /\ \A order \in Orderings(DOMAIN escrow_contracts') :
                    process_from(escrow_contracts', <<>>, order, now,
                                 overflow_checks).released = <<>>]_vars

(***************************************************************************)
(* marketplace/src/manager.rs: global listings.                            *)
(***************************************************************************)
\* The most entries global_listings is followed to.
MaxListings == 3

\* PublicKey::verify: the signature is one of this key over the message.
PublicKey_verify(self, message, signature) == verify_signature(self, message, signature)

\* MarketplaceStorage::store_listing: the listing is kept under its id.
store_listing(store, listing) == Put(store, listing.id, listing)

\* list_all_listings: the active entries of global_listings, in order.
list_all_listings(global) == SelectSeq(global, LAMBDA l : l.active)

\* listings.iter().any(|l| l.id == id)
any_with_id(global, id) == \E i \in DOMAIN global : global[i].id = id

\* The listings peers broadcast.
BroadcastListings == {Listing("l1", "A", TRUE), Listing("l2", "A", FALSE)}

\* A listing broadcast as it reaches the node: as signed by its seller, with
\* the title changed after signing, or signed by a key other than the seller's.
Deliveries ==
    {[listing |-> l, signature |-> sign(l.seller, serialize_Listing(l)), timestamp |-> 0] :
        l \in BroadcastListings}
    \cup {[listing |-> [Listing("l1", "A", TRUE) EXCEPT !.title = "Tampered"],
           signature |-> sign("A", serialize_Listing(Listing("l1", "A", TRUE))),
           timestamp |-> 0],
          [listing |-> Listing("l1", "A", TRUE),
           signature |-> sign("X", serialize_Listing(Listing("l1", "A", TRUE))),
           timestamp |-> 0]}

\* handle_received_listing that skips the signature check.
handle_received_listing_unverified(listing, signature, global) ==
    IF any_with_id(global, listing.id)
    THEN [err |-> NoError, add |-> FALSE]
    ELSE [err |-> NoError, add |-> TRUE]

\* handle_received_listing up to drop(listings): the error it returns and
\* whether it goes on to store and add the listing.
handle_received_listing(listing, signature, global) ==
    IF ~PublicKey_verify(listing.seller, serialize_Listing(listing), signature)
    THEN [err |-> InvalidSignature, add |-> FALSE]
    ELSE IF any_with_id(global, listing.id)
    THEN [err |-> NoError, add |-> FALSE]
    ELSE [err |-> NoError, add |-> TRUE]

InitListings ==
    /\ config = CHOOSE cfg \in ManagerConfigs : TRUE
    /\ channel = MarketplaceChannel_new(config)
    /\ last = [op |-> "new", signed |-> NoSigned, err |-> NoError]
    /\ channels = <<>>
    /\ storage = <<>>
    /\ base = <<>>
    /\ TasksIdle
    /\ MarketIdle

\* What a listing operation leaves alone.
listingFrame ==
    <<channelVars, managerVars, creating, escrow_contracts, now, overflow_checks, guards, locked_collateral>>

\* create_global_listing with no P2P network set: the listing is stored and
\* pushed, whatever global_listings holds.
CreateGlobalListing ==
    /\ Len(global_listings) < MaxListings
    /\ \E id \in {"l1", "l2"} :
          LET listing == Listing(id, "A", TRUE)
          IN  /\ listings' = store_listing(listings, listing)
              /\ global_listings' = Append(global_listings, listing)
              /\ result' = Called("create_global_listing", <<listing>>, NoError)
    /\ UNCHANGED <<listingFrame, receiving>>

\* Task t handles a ListingBroadcast up to drop(listings). `result` records
\* what the call returns.
ReceiveListing(t) ==
    /\ receiving[t] = NoListing
    /\ \E d \in Deliveries :
          LET out == handle_received_listing(d.listing, d.signature, global_listings)
          IN  /\ receiving' = IF out.add THEN [receiving EXCEPT ![t] = d.listing]
                                         ELSE receiving
              /\ result' = Called("handle_received_listing",
                                  <<d.listing, d.signature>>, out.err)
    /\ UNCHANGED <<listingFrame, global_listings, listings>>

\* Task t goes on: store_listing, then the push under the write-lock.
StoreReceived(t) ==
    /\ receiving[t] # NoListing
    /\ Len(global_listings) < MaxListings
    /\ listings' = store_listing(listings, receiving[t])
    /\ global_listings' = Append(global_listings, receiving[t])
    /\ receiving' = [receiving EXCEPT ![t] = NoListing]
    /\ result' = Called("store_listing", <<receiving[t]>>, NoError)
    /\ UNCHANGED listingFrame

NextListings ==
    \/ CreateGlobalListing
    \/ \E t \in Tasks : ReceiveListing(t)
    \/ \E t \in Tasks : StoreReceived(t)

SpecListings == InitListings /\ [][NextListings]_vars

\* The signature is the seller's over the serialized listing.
SignedBySeller(listing, signature) ==
    signature = sign(listing.seller, serialize_Listing(listing))

NoDuplicateIds ==
    \A i, j \in DOMAIN global_listings :
        global_listings[i].id = global_listings[j].id => i = j

\* C20: under any interleaving of handle_received_listing and
\* create_global_listing, global_listings never holds two entries with one
\* id, and a delivery of an id already present changes nothing.
C20_DeduplicatedById ==
    [][/\ NoDuplicateIds'
       /\ (/\ result'.op = "handle_received_listing"
            /\ \E i \in DOMAIN global_listings :
                  global_listings[i].id = result'.args[1].id) =>
              UNCHANGED <<listings, global_listings, receiving>>]_vars

\* Signature::new([0u8; 64]): the signature of no key over no message.
DummySignature == [signer |-> "none", msg |-> <<>>]

\* The listings a peer answers a ListingsRequest with.
ListingsResponses ==
    {<<Listing("l1", "A", TRUE)>>,
     <<Listing("l1", "A", TRUE), Listing("l2", "A", FALSE)>>,
     <<Listing("l2", "A", FALSE), Listing("l2", "A", FALSE)>>}

\* The loop of the ListingsResponse handler: handle_received_listing on each
\* listing in turn with the dummy signature, store and push included; an
\* error is logged and the loop goes on.
RECURSIVE ingest_response(_, _, _)
ingest_response(response, global, store) ==
    IF response = <<>>
    THEN [global |-> global, store |-> store, errs |-> <<>>]
    ELSE LET listing == Head(response)
             out == handle_received_listing(listing, DummySignature, global)
             rest == IF out.add
                     THEN ingest_response(Tail(response), Append(global, listing),
                                          store_listing(store, listing))
                     ELSE ingest_response(Tail(response), global, store)
         IN  [rest EXCEPT !.errs = <<out.err>> \o rest.errs]

\* handle_message(ListingsResponse { listings }): returns Ok(None) whatever
\* the calls returned.
HandleListingsResponse ==
    /\ \E response \in ListingsResponses :
          LET out == ingest_response(response, global_listings, listings)
          IN  /\ Len(out.global) <= MaxListings
              /\ global_listings' = out.global
              /\ listings' = out.store
              /\ result' = [op |-> "listings_response", args |-> <<response, out.errs>>,
                            ret |-> NoError]
    /\ UNCHANGED <<listingFrame, receiving>>

NextSync ==
    \/ CreateGlobalListing
    \/ \E t \in Tasks : ReceiveListing(t)
    \/ \E t \in Tasks : StoreReceived(t)
    \/ HandleListingsResponse

SpecSync == InitListings /\ [][NextSync]_vars

\* C21: every listing of a ListingsResponse whose id is not already present
\* is persisted and added to global_listings, and the listings whose id is
\* present are filtered out.
C21_BulkIngested ==
    [][result'.op = "listings_response" =>
          \A i \in DOMAIN result'.args[1] :
              LET listing == result'.args[1][i]
              IN  IF any_with_id(global_listings, listing.id)
                  THEN Len(SelectSeq(global_listings', LAMBDA l : l.id = listing.id))
                           = Len(SelectSeq(global_listings, LAMBDA l : l.id = listing.id))
                  ELSE /\ any_with_id(global_listings', listing.id)
                       /\ listing.id \in DOMAIN listings']_vars

\* merkle_root of the channel's state on two nodes that hold equal
\* ChannelState values: each node's balances map yields its keys in an order
\* of its own (std HashMap, RandomState seeded per map).
StateRoots ==
    /\ \E here, there \in Orderings(DOMAIN channel.state.balances) :
          last' = [op |-> "state_root", signed |-> NoSigned, err |-> NoError,
                   roots |-> <<merkle_root(channel.state, here),
                               merkle_root(channel.state, there)>>]
    /\ UNCHANGED <<config, channel, managerVars, marketVars>>

NextRoots == ApplySigned \/ Activate \/ InitiateClose \/ StateRoots

SpecRoots == Init /\ [][NextRoots]_vars

\* C23: two equal ChannelState values have the same state_root, also when
\* they were built on different nodes or by different sequences of
\* insertions into the balances map.
C23_DeterministicRoot ==
    last.op = "state_root" => last.roots[1] = last.roots[2]

\* Updates that name a key outside the channel or a second listing.
WideUpdates ==
    {Transfer("A", "X", 1)}
    \cup {CreateListing(Listing("l2", "A", act)) : act \in BOOLEAN}
    \cup {UpdateListing("l2", act) : act \in BOOLEAN}

\* apply_update with one of them, signed by both parties for the next nonce.
ApplyWide ==
    /\ channel.state.nonce < MaxNonce
    /\ \E u \in WideUpdates :
          LET signed == SignedBy(u, channel.state.nonce + 1, Range(channel.participants))
              out == apply_update(channel, signed)
          IN  /\ channel' = out.channel
              /\ last' = Returned("apply_update", signed, out)
    /\ UNCHANGED <<config, managerVars, marketVars>>

NextWide == ApplySigned \/ ApplyWide \/ Activate \/ InitiateClose

SpecWide == Init /\ [][NextWide]_vars

\* C24: in every reachable state of a channel the keys of balances are
\* exactly the channel's participants.
C24_BalanceKeysAreParticipants ==
    DOMAIN channel.state.balances = Range(channel.participants)

\* C25: in every reachable state of a channel no two orders share an id.
C25_UniqueOrderIds ==
    \A i, j \in DOMAIN channel.state.orders :
        channel.state.orders[i].id = channel.state.orders[j].id => i = j

\* No two listings of the state share an id.
UniqueListingIds(state) ==
    \A i, j \in DOMAIN state.listings :
        state.listings[i].id = state.listings[j].id => i = j

\* C26: in every reachable state of a channel no two listings share an id:
\* CreateListing with an id already present fails with InvalidStateTransition
\* and otherwise appends the listing; UpdateListing fails with
\* InvalidStateTransition when the id is unknown and otherwise sets the
\* active flag of that listing, adding and removing none.
C26_UniqueListingIds ==
    [][/\ UniqueListingIds(channel'.state)
       /\ ReachedRule("CreateListing") =>
             LET listing == last'.signed.update.listing
             IN  IF \E i \in DOMAIN channel.state.listings :
                        channel.state.listings[i].id = listing.id
                 THEN last'.err = InvalidStateTransition /\ channel' = channel
                 ELSE /\ last'.err = NoError
                      /\ channel'.state.listings = Append(channel.state.listings, listing)
       /\ ReachedRule("UpdateListing") =>
             LET u == last'.signed.update
             IN  IF \E i \in DOMAIN channel.state.listings :
                        channel.state.listings[i].id = u.listing_id
                 THEN /\ last'.err = NoError
                      /\ channel'.state.listings =
                            [i \in DOMAIN channel.state.listings |->
                                IF channel.state.listings[i].id = u.listing_id
                                THEN [channel.state.listings[i] EXCEPT !.active = u.active]
                                ELSE channel.state.listings[i]]
                 ELSE last'.err = InvalidStateTransition /\ channel' = channel]_vars

\* A CreateListing that reached the rule was refused for an id the state
\* holds, next to a second listing.
C26_Witness ==
    /\ LastApply("InvalidStateTransition")
    /\ last.signed.update.type = "CreateListing"
    /\ last.signed.nonce = channel.state.nonce + 1
    /\ channel.status = "Active"
    /\ Len(channel.state.listings) = 2
    /\ \E i \in DOMAIN channel.state.listings :
          channel.state.listings[i].id = last.signed.update.listing.id

(***************************************************************************)
(* marketplace/src/storage.rs: channels in the sled tree.                  *)
(***************************************************************************)
ChannelStatus == <<"Opening", "Active", "Closing", "Challenged", "Closed">>

ChannelStatusIndex(status) == CHOOSE i \in 1..Len(ChannelStatus) : ChannelStatus[i] = status

\* bincode::deserialize of a Listing / an Order / a StateUpdate.
deserialize_Listing(b) ==
    [id |-> b[1], seller |-> b[2], title |-> b[3], description |-> b[4],
     price |-> b[5], ipfs_hash |-> b[6], active |-> b[7]]

deserialize_Order(b) ==
    [id |-> b[1], listing_id |-> b[2], buyer |-> b[3], seller |-> b[4],
     amount |-> b[5], status |-> OrderStatus[b[6] + 1]]

deserialize_StateUpdate(b) ==
    CASE b[1] = 0 -> [type |-> "Transfer", from |-> b[2], to |-> b[3], amount |-> b[4]]
      [] b[1] = 1 -> [type |-> "CreateListing",
                      listing |-> deserialize_Listing(SubSeq(b, 2, Len(b)))]
      [] b[1] = 2 -> [type |-> "UpdateListing", listing_id |-> b[2], active |-> b[3]]
      [] b[1] = 3 -> [type |-> "CreateOrder",
                      order |-> deserialize_Order(SubSeq(b, 2, Len(b)))]
      [] b[1] = 4 -> [type |-> "UpdateOrderStatus", order_id |-> b[2],
                      status |-> OrderStatus[b[3] + 1]]

\* bincode::deserialize of a HashMap: the entries are inserted one after the
\* other into a new map.
deserialize_map(entries) ==
    [k \in {entries[i][1] : i \in DOMAIN entries} |->
        entries[CHOOSE i \in DOMAIN entries :
                    /\ entries[i][1] = k
                    /\ \A j \in DOMAIN entries : j > i => entries[j][1] # k][2]]

deserialize_ChannelState(b) ==
    [nonce |-> b[1],
     balances |-> deserialize_map(b[2]),
     listings |-> [i \in DOMAIN b[3] |-> deserialize_Listing(b[3][i])],
     orders |-> [i \in DOMAIN b[4] |-> deserialize_Order(b[4][i])]]

\* bincode::serialize of a SignedStateUpdate whose signatures map yields its
\* keys in `order`.
serialize_SignedStateUpdate(signed, order) ==
    <<serialize_StateUpdate(signed.update), signed.nonce,
      serialize_map(signed.signatures, order)>>

deserialize_SignedStateUpdate(b) ==
    [update |-> deserialize_StateUpdate(b[1]), nonce |-> b[2],
     signatures |-> deserialize_map(b[3])]

\* The byte strings bincode may write for a state_history: one per choice of
\* the order of each entry's signatures map.
RECURSIVE serialize_history(_)
serialize_history(history) ==
    IF history = <<>>
    THEN {<<>>}
    ELSE {<<h>> \o t :
            h \in {serialize_SignedStateUpdate(Head(history), order) :
                      order \in Orderings(DOMAIN Head(history).signatures)},
            t \in serialize_history(Tail(history))}

\* The byte strings bincode::serialize may write for a MarketplaceChannel:
\* the fields in declaration order, the maps in any order.
serialize_MarketplaceChannel(ch) ==
    {<<ch.channel_id, ch.participants, ch.collateral, s,
       ChannelStatusIndex(ch.status) - 1, ch.challenge_period, h>> :
        s \in {serialize_ChannelState(ch.state, order) :
                  order \in Orderings(DOMAIN ch.state.balances)},
        h \in serialize_history(ch.state_history)}

deserialize_MarketplaceChannel(b) ==
    [channel_id |-> b[1],
     participants |-> b[2],
     collateral |-> b[3],
     state |-> deserialize_ChannelState(b[4]),
     status |-> ChannelStatus[b[5] + 1],
     challenge_period |-> b[6],
     state_history |-> [i \in DOMAIN b[7] |-> deserialize_SignedStateUpdate(b[7][i])]]

\* channel_id.as_bytes().to_vec() and Hash::from_slice.
Hash_to_vec(hash) == [len |-> 32, bytes |-> hash.blake3]

Hash_from_slice(slice) == [blake3 |-> slice.bytes]

\* store_channel that leaves a key the tree already holds as it is.
store_channel_keep_existing(tree, ch, value) ==
    IF Hash_to_vec(ch.channel_id) \in DOMAIN tree
    THEN tree
    ELSE Put(tree, Hash_to_vec(ch.channel_id), value)

\* MarketplaceStorage::store_channel, `value` being what bincode wrote.
MarketplaceStorage_store_channel(tree, ch, value) ==
    Put(tree, Hash_to_vec(ch.channel_id), value)

\* MarketplaceStorage::load_channel: <<channel>> for Some(channel), <<>> for None.
MarketplaceStorage_load_channel(tree, channel_id) ==
    IF Hash_to_vec(channel_id) \in DOMAIN tree
    THEN <<deserialize_MarketplaceChannel(tree[Hash_to_vec(channel_id)])>>
    ELSE <<>>

\* MarketplaceStorage::list_channels, the tree yielding its keys in `order`.
MarketplaceStorage_list_channels(tree, order) ==
    [i \in DOMAIN order |-> Hash_from_slice(order[i])]

\* MarketplaceStorage::delete_channel
MarketplaceStorage_delete_channel(tree, channel_id) ==
    [k \in (DOMAIN tree) \ {Hash_to_vec(channel_id)} |-> tree[k]]

\* The loop of MarketplaceManager::load_channels over channel_ids.
RECURSIVE insert_loaded(_, _, _)
insert_loaded(map, tree, channel_ids) ==
    IF channel_ids = <<>>
    THEN map
    ELSE LET loaded == MarketplaceStorage_load_channel(tree, Head(channel_ids))
         IN  insert_loaded(IF loaded = <<>> THEN map
                           ELSE Put(map, Head(channel_ids), loaded[1]),
                           tree, Tail(channel_ids))

\* The channels handed to storage: as opened, and after a listing and an
\* order were applied.
StoredVersions(cfg) ==
    LET opened == MarketplaceChannel_new(cfg)
        both == Range(cfg.participants)
        active == activate(opened).channel
        listed == apply_update(active,
                      SignedBy(CreateListing(Listing("l1", "A", TRUE)), 1, both)).channel
        ordered == apply_update(listed,
                      SignedBy(CreateOrder(Order("o1", "l1", "B", "A", 1, "Pending")),
                               2, both)).channel
    IN  {opened, ordered}

StoredChannels ==
    UNION {StoredVersions(cfg) :
              cfg \in {c \in ManagerConfigs : c.initial_balances["A"] = 1}}

StoredIds == {ch.channel_id : ch \in StoredChannels}

\* MarketplaceStorage::open on a new directory and MarketplaceManager::new.
\* `base` holds the channels handed to store_channel and not deleted since.
InitStorage ==
    /\ config = CHOOSE cfg \in ManagerConfigs : TRUE
    /\ channel = MarketplaceChannel_new(config)
    /\ last = [op |-> "new", signed |-> NoSigned, err |-> NoError]
    /\ channels = <<>>
    /\ storage = <<>>
    /\ base = <<>>
    /\ TasksIdle
    /\ MarketIdle

\* What a storage operation leaves alone.
storageFrame ==
    <<channelVars, lock, pc, arg, ret, local, creating, escrow_contracts, now,
      overflow_checks, guards, locked_collateral, global_listings, listings, receiving>>

StoreChannel ==
    /\ \E ch \in StoredChannels :
          \E value \in serialize_MarketplaceChannel(ch) :
              /\ storage' = MarketplaceStorage_store_channel(storage, ch, value)
              /\ base' = Put(base, ch.channel_id, ch)
              /\ result' = Called("store_channel",
                                  <<ch, Hash_to_vec(ch.channel_id) \in DOMAIN storage>>,
                                  NoError)
    /\ UNCHANGED <<storageFrame, channels>>

LoadChannel ==
    /\ \E id \in StoredIds :
          result' = [op |-> "load_channel", args |-> <<id>>, ret |-> NoError,
                     out |-> MarketplaceStorage_load_channel(storage, id)]
    /\ UNCHANGED <<storageFrame, channels, storage, base>>

ListChannels ==
    /\ \E order \in Orderings(DOMAIN storage) :
          result' = [op |-> "list_channels", args |-> <<>>, ret |-> NoError,
                     out |-> MarketplaceStorage_list_channels(storage, order)]
    /\ UNCHANGED <<storageFrame, channels, storage, base>>

DeleteChannel ==
    /\ \E id \in StoredIds :
          /\ storage' = MarketplaceStorage_delete_channel(storage, id)
          /\ base' = [k \in (DOMAIN base) \ {id} |-> base[k]]
          /\ result' = Called("delete_channel", <<id>>, NoError)
    /\ UNCHANGED <<storageFrame, channels>>

\* MarketplaceManager::new on the open store: no channel in memory.
NewManager ==
    /\ channels' = <<>>
    /\ result' = Called("new", <<>>, NoError)
    /\ UNCHANGED <<storageFrame, storage, base>>

\* MarketplaceManager::load_channels; the call records whether the map was
\* empty before.
LoadChannels ==
    /\ \E order \in Orderings(DOMAIN storage) :
          channels' = insert_loaded(channels, storage,
                                    MarketplaceStorage_list_channels(storage, order))
    /\ result' = Called("load_channels", <<DOMAIN channels = {}>>, NoError)
    /\ UNCHANGED <<storageFrame, storage, base>>

NextStorage ==
    \/ StoreChannel
    \/ LoadChannel
    \/ ListChannels
    \/ DeleteChannel
    \/ NewManager
    \/ LoadChannels

SpecStorage == InitStorage /\ [][NextStorage]_vars

\* What load_channel is to return for id: the channel last stored under it
\* and not deleted since.
LatestStored(id) == IF id \in DOMAIN base THEN <<base[id]>> ELSE <<>>

\* C22: after store_channel(c), load_channel(c.channel_id) and
\* load_channels() yield a channel equal to c, the latest stored version when
\* c was stored several times, and list_channels holds its id once; after
\* delete_channel the channel is no longer returned; load_channels on an
\* empty store succeeds with an empty channel set.
C22_RoundTrip ==
    /\ \A id \in StoredIds :
          /\ MarketplaceStorage_load_channel(storage, id) = LatestStored(id)
          /\ \A order \in Orderings(DOMAIN storage) :
                LET ids == MarketplaceStorage_list_channels(storage, order)
                IN  Cardinality({i \in DOMAIN ids : ids[i] = id})
                        = Len(LatestStored(id))
    /\ result.op = "load_channel" => result.out = LatestStored(result.args[1])
    /\ result.op = "load_channels" =>
          /\ result.ret = NoError
          /\ \A id \in DOMAIN base : id \in DOMAIN channels /\ channels[id] = base[id]
          /\ result.args[1] => DOMAIN channels = DOMAIN base

\* A channel was stored over an earlier version of it, with its listing,
\* order and signed history, next to a second channel.
C22_Witness ==
    /\ result.op = "store_channel"
    /\ result.args[2]
    /\ Len(result.args[1].state_history) = 2
    /\ Cardinality(DOMAIN storage) = 2

(***************************************************************************)
(* l1-client/src/lib.rs and the manager operations that call out of the    *)
(* node: create_channel, close_channel, create_global_listing.             *)
(***************************************************************************)
\* An anyhow error of the L1 client.
L1Error == [kind |-> "L1Error", required |-> 0, available |-> 0]

\* TariL1Client::lock_collateral: fails when get_chain_height does (the base
\* node is set but does not answer), records the collateral otherwise.
lock_collateral(locked, channel_id, amount, participants, height_ok) ==
    IF ~height_ok
    THEN [err |-> L1Error, locked |-> locked]
    ELSE [err |-> NoError,
          locked |-> Put(locked, channel_id,
                         [amount |-> amount, participants |-> participants])]

\* TariL1Client::unlock_collateral: fails when no collateral is recorded for
\* the channel, drops the record otherwise.
unlock_collateral(locked, channel_id) ==
    IF channel_id \notin DOMAIN locked
    THEN [err |-> L1Error, locked |-> locked]
    ELSE [err |-> NoError,
          locked |-> [k \in (DOMAIN locked) \ {channel_id} |-> locked[k]]]

\* An L1 error handed on to the caller of the manager.
return_error(e) == e

\* match l1_client.call().await { Ok(_) => info!(..), Err(e) => info!(..) }:
\* the error is logged and the operation goes on.
log_and_continue(e) == NoError

\* The configurations create_channel is called with while an L1 client is set.
L1Configs == {cfg \in ManagerConfigs : cfg.initial_balances["A"] = 1}

\* The points at which a task awaits the L1 adapter or the P2P network.
Outbound == {"lock_collateral", "unlock_collateral", "broadcast"}

Step(t, at) == Called("step", <<t, at>>, NoError)

\* What the channel and L1 steps leave alone.
l1Frame ==
    <<channelVars, ret, local, base, creating, escrow_contracts, now, overflow_checks, guards,
      receiving>>

\* create_channel up to the call of lock_collateral: no lock is held.
CreateBegin(t) ==
    /\ pc[t] = "idle"
    /\ \E cfg \in L1Configs :
          arg' = [arg EXCEPT ![t] = [op |-> "create_channel", config |-> cfg,
                                     l1 |-> NoError]]
    /\ pc' = [pc EXCEPT ![t] = "lock_collateral"]
    /\ result' = Step(t, "lock_collateral")
    /\ UNCHANGED <<l1Frame, channels, storage, lock, locked_collateral,
                   global_listings, listings>>

\* lock_collateral returns to create_channel.
LockCollateralReturns(t) ==
    /\ pc[t] = "lock_collateral"
    /\ \E height_ok \in BOOLEAN :
          LET cfg == arg[t].config
              ch == MarketplaceChannel_new(cfg)
              out == lock_collateral(locked_collateral, ch.channel_id,
                                     SumBalances(cfg.initial_balances),
                                     cfg.participants, height_ok)
          IN  /\ locked_collateral' = out.locked
              /\ IF log_and_continue(out.err) = NoError
                 THEN /\ arg' = [arg EXCEPT ![t].l1 = out.err]
                      /\ pc' = [pc EXCEPT ![t] = "insert"]
                      /\ result' = Step(t, "insert")
                 ELSE /\ pc' = [pc EXCEPT ![t] = "idle"]
                      /\ arg' = [arg EXCEPT ![t] = NoArg]
                      /\ result' = Called("create_channel", <<t, cfg, out.err>>,
                                          log_and_continue(out.err))
    /\ UNCHANGED <<l1Frame, channels, storage, lock, global_listings, listings>>

\* create_channel from channels.write() to drop(channels).
CreateInsert(t) ==
    /\ pc[t] = "insert"
    /\ write_lock_free(lock)
    /\ LET ch == MarketplaceChannel_new(arg[t].config)
       IN  IF contains_key(channels, ch.channel_id)
           THEN /\ pc' = [pc EXCEPT ![t] = "idle"]
                /\ arg' = [arg EXCEPT ![t] = NoArg]
                /\ result' = Called("create_channel",
                                    <<t, arg[t].config, arg[t].l1>>, ChannelAlreadyExists)
                /\ UNCHANGED channels
           ELSE /\ channels' = Put(channels, ch.channel_id, ch)
                /\ pc' = [pc EXCEPT ![t] = "store"]
                /\ result' = Step(t, "store")
                /\ UNCHANGED arg
    /\ UNCHANGED <<l1Frame, storage, lock, locked_collateral, global_listings,
                   listings>>

\* create_channel from store_channel to its return.
CreateStore(t) ==
    /\ pc[t] = "store"
    /\ storage' = store_channel(storage, MarketplaceChannel_new(arg[t].config))
    /\ pc' = [pc EXCEPT ![t] = "idle"]
    /\ arg' = [arg EXCEPT ![t] = NoArg]
    /\ result' = Called("create_channel", <<t, arg[t].config, arg[t].l1>>, NoError)
    /\ UNCHANGED <<l1Frame, channels, lock, locked_collateral, global_listings,
                   listings>>

\* activate_channel: the write-lock, activate and store_channel.
ActivateCall ==
    /\ write_lock_free(lock)
    /\ \E id \in DOMAIN channels :
          LET out == activate(channels[id])
          IN  /\ result' = Called("activate_channel", <<id>>, out.err)
              /\ IF out.err # NoError
                 THEN UNCHANGED <<channels, storage>>
                 ELSE /\ channels' = Put(channels, id, out.channel)
                      /\ storage' = store_channel(storage, out.channel)
    /\ UNCHANGED <<l1Frame, arg, pc, lock, locked_collateral, global_listings, listings>>

\* close_channel from channels.write() to the call of unlock_collateral.
CloseBegin(t) ==
    /\ pc[t] = "idle"
    /\ write_lock_free(lock)
    /\ \E id \in DOMAIN channels \cup {UnknownChannelId} :
          IF ~contains_key(channels, id)
          THEN /\ result' = Called("close_channel", <<t, id, NoError>>, ChannelNotFound)
               /\ UNCHANGED <<channels, lock, pc, arg>>
          ELSE LET out == initiate_close(channels[id])
               IN  IF out.err # NoError
                   THEN /\ result' = Called("close_channel", <<t, id, NoError>>, out.err)
                        /\ UNCHANGED <<channels, lock, pc, arg>>
                   ELSE /\ channels' = Put(channels, id, out.channel)
                        /\ lock' = t
                        /\ pc' = [pc EXCEPT ![t] = "unlock_collateral"]
                        /\ arg' = [arg EXCEPT ![t] = [op |-> "close_channel",
                                                      channel_id |-> id]]
                        /\ result' = Step(t, "unlock_collateral")
    /\ UNCHANGED <<l1Frame, storage, locked_collateral, global_listings, listings>>

\* unlock_collateral returns to close_channel, which stores the channel and
\* returns.
UnlockCollateralReturns(t) ==
    /\ pc[t] = "unlock_collateral"
    /\ LET id == arg[t].channel_id
           out == unlock_collateral(locked_collateral, id)
       IN  /\ locked_collateral' = out.locked
           /\ IF log_and_continue(out.err) = NoError
              THEN /\ storage' = store_channel(storage, channels[id])
                   /\ result' = Called("close_channel", <<t, id, out.err>>, NoError)
              ELSE /\ UNCHANGED storage
                   /\ result' = Called("close_channel", <<t, id, out.err>>,
                                       log_and_continue(out.err))
    /\ lock' = "none"
    /\ pc' = [pc EXCEPT ![t] = "idle"]
    /\ arg' = [arg EXCEPT ![t] = NoArg]
    /\ UNCHANGED <<l1Frame, channels, global_listings, listings>>

\* create_global_listing with a P2P network set, up to broadcast_message.
ListingBegin(t) ==
    /\ pc[t] = "idle"
    /\ Len(global_listings) < MaxListings
    /\ LET listing == Listing("l1", "A", TRUE)
       IN  /\ listings' = store_listing(listings, listing)
           /\ global_listings' = Append(global_listings, listing)
           /\ arg' = [arg EXCEPT ![t] = [op |-> "create_global_listing",
                                         listing |-> listing]]
    /\ pc' = [pc EXCEPT ![t] = "broadcast"]
    /\ result' = Step(t, "broadcast")
    /\ UNCHANGED <<l1Frame, channels, storage, lock, locked_collateral>>

\* broadcast_message returns to create_global_listing.
BroadcastReturns(t) ==
    /\ pc[t] = "broadcast"
    /\ \E sent \in BOOLEAN :
          result' = Called("create_global_listing", <<t, arg[t].listing>>,
                           IF sent THEN NoError
                           ELSE Unknown("Failed to broadcast listing"))
    /\ pc' = [pc EXCEPT ![t] = "idle"]
    /\ arg' = [arg EXCEPT ![t] = NoArg]
    /\ UNCHANGED <<l1Frame, channels, storage, lock, locked_collateral,
                   global_listings, listings>>

NextL1 ==
    \/ \E t \in Tasks : CreateBegin(t)
    \/ \E t \in Tasks : LockCollateralReturns(t)
    \/ \E t \in Tasks : CreateInsert(t)
    \/ \E t \in Tasks : CreateStore(t)
    \/ ActivateCall
    \/ \E t \in Tasks : CloseBegin(t)
    \/ \E t \in Tasks : UnlockCollateralReturns(t)
    \/ \E t \in Tasks : ListingBegin(t)
    \/ \E t \in Tasks : BroadcastReturns(t)

SpecL1 == InitChannels /\ [][NextL1]_vars

C28_NoLockAcrossAwait ==
    \A t \in Tasks : pc[t] \in Outbound => lock # t

\* C29: under any interleaving of create_channel, activate_channel,
\* apply_state_update and close_channel, whenever none of them is in
\* progress, the record of each channel in storage equals the channel in
\* memory.
C29_StorageMatchesMemory ==
    creating = {} =>
        \A id \in DOMAIN channels :
            id \in DOMAIN storage /\ storage[id] = channels[id]

(***************************************************************************)
(* Channel operations of the manager when sled may fail.                   *)
(***************************************************************************)
DatabaseError == [kind |-> "DatabaseError", required |-> 0, available |-> 0]

\* What a call of store_channel may do: insert and flush succeed; insert
\* fails and the tree is as before; insert succeeds and flush fails.
StoreOutcomes == {"stored", "insert_failed", "flush_failed"}

\* MarketplaceStorage::store_channel with the outcome of its sled calls.
try_store_channel(store, ch, outcome) ==
    CASE outcome = "stored" -> [err |-> NoError, store |-> store_channel(store, ch)]
      [] outcome = "insert_failed" -> [err |-> DatabaseError, store |-> store]
      [] outcome = "flush_failed" -> [err |-> DatabaseError, store |-> store_channel(store, ch)]

\* A channel operation of the manager: under the write-lock, get_mut, the
\* channel's method on the channel in the map, then store_channel, whose
\* error is returned.
FaultyCall(op, args, id, out, outcome) ==
    /\ IF ~contains_key(channels, id)
       THEN /\ result' = Called(op, args, ChannelNotFound)
            /\ UNCHANGED <<channels, storage>>
       ELSE IF out.err # NoError
       THEN /\ result' = Called(op, args, out.err)
            /\ UNCHANGED <<channels, storage>>
       ELSE LET kept == try_store_channel(storage, out.channel, outcome)
            IN  /\ channels' = Put(channels, id, out.channel)
                /\ storage' = kept.store
                /\ result' = Called(op, args, kept.err)
    /\ UNCHANGED <<channelVars, lock, pc, arg, ret, local, base, creating,
                   escrow_contracts, now, overflow_checks, guards, locked_collateral,
                   global_listings, listings, receiving>>

ActivateFaulty ==
    \E id \in DOMAIN channels \cup {UnknownChannelId} :
        \E outcome \in StoreOutcomes :
            FaultyCall("activate_channel", <<id>>, id, activate(channels[id]), outcome)

CloseFaulty ==
    \E id \in DOMAIN channels \cup {UnknownChannelId} :
        \E outcome \in StoreOutcomes :
            FaultyCall("close_channel", <<id>>, id, initiate_close(channels[id]), outcome)

ApplyFaulty ==
    \E id \in DOMAIN channels :
        /\ channels[id].state.nonce < MaxNonce
        /\ \E signed \in ManagerInputs(channels[id]) :
              \E outcome \in StoreOutcomes :
                  FaultyCall("apply_state_update", <<id, signed>>, id,
                             apply_update(channels[id], signed), outcome)

NextFaults ==
    \/ CreateChannel
    \/ StoreCreated
    \/ ActivateFaulty
    \/ CloseFaulty
    \/ ApplyFaulty

SpecFaults == InitChannels /\ [][NextFaults]_vars

\* C30: when store_channel returns an error inside apply_state_update,
\* activate_channel or close_channel, the operation returns that error and
\* the in-memory channel still has the state, status and history it had
\* before the call.
C30_CommitDeferred ==
    [][(/\ result'.op \in {"apply_state_update", "activate_channel", "close_channel"}
        /\ result'.ret = DatabaseError) =>
          channels' = channels]_vars

\* C31: create_channel looks for the channel id before it calls the L1
\* adapter: a create_channel for an id the manager holds, which fails with
\* ChannelAlreadyExists as channels are never removed, makes no
\* lock_collateral call and leaves the locked-collateral records as they are.
C31_CheckBeforeL1 ==
    [][\A t \in Tasks :
          (/\ pc[t] = "lock_collateral"
           /\ pc'[t] # "lock_collateral"
           /\ contains_key(channels, MarketplaceChannel_new(arg[t].config).channel_id)) =>
              locked_collateral' = locked_collateral]_vars

\* C32: every state transition is balance-conservative: in every reachable
\* state of a channel the sum of all balances equals the channel's
\* collateral.
C32_BalanceConservative ==
    SumBalances(channel.state.balances) = channel.collateral

\* The last nonce the life of one order is followed to.
MaxOrderNonce == 5

\* The updates of the life of one order: its listing, the order, and any
\* status after any other.
OrderUpdates ==
    {CreateListing(Listing("l1", "A", TRUE)),
     CreateOrder(Order("o1", "l1", "B", "A", 1, "Pending"))}
    \cup {UpdateOrderStatus("o1", st) : st \in {"Confirmed", "Completed"}}

\* apply_update with one of them, signed by both parties for the next nonce.
ApplyOrder ==
    /\ channel.state.nonce < MaxOrderNonce
    /\ \E u \in OrderUpdates :
          LET signed == SignedBy(u, channel.state.nonce + 1, Range(channel.participants))
              out == apply_update(channel, signed)
          IN  /\ channel' = out.channel
              /\ last' = Returned("apply_update", signed, out)
    /\ UNCHANGED <<config, managerVars, marketVars>>

NextOrders == ApplyOrder \/ Activate \/ InitiateClose

SpecOrders == Init /\ [][NextOrders]_vars

\* C33: the amount of an order is moved from its buyer to its seller at most
\* once over the life of the channel: an UpdateOrderStatus moves no funds
\* when an update to Completed was applied to that order before.
C33_PaidAtMostOnce ==
    [][(/\ ReachedRule("UpdateOrderStatus")
        /\ last'.err = NoError
        /\ \E i \in DOMAIN channel.state_history :
              LET earlier == channel.state_history[i].update
              IN  /\ earlier.type = "UpdateOrderStatus"
                  /\ earlier.order_id = last'.signed.update.order_id
                  /\ earlier.status = "Completed") =>
          BalancesUnchanged]_vars

\* The sum of the amounts of buyer's orders in status Pending, Confirmed or
\* Shipping.
Committed(state, buyer) ==
    SumSeq([i \in 1..Len(state.orders) |->
               IF /\ state.orders[i].buyer = buyer
                  /\ state.orders[i].status \in {"Pending", "Confirmed", "Shipping"}
               THEN state.orders[i].amount ELSE 0])

\* C34: funds committed to orders are reserved: in every reachable state, for
\* every buyer, balances[buyer] is at least the sum of the amounts of that
\* buyer's orders in status Pending, Confirmed or Shipping.
C34_FundsReserved ==
    \A buyer \in Keys :
        get_balance(channel.state, buyer) >= Committed(channel.state, buyer)

\* C35: a SignedStateUpdate is bound to one channel: a signed update that
\* one channel accepts is accepted by no other channel, a channel between
\* the same two participants listed in the other order and at the same
\* nonce included.
C35_BoundToChannel ==
    [][(result'.op = "apply_state_update" /\ result'.ret = NoError) =>
          \A other \in (DOMAIN channels) \ {result'.args[1]} :
              apply_update(channels[other], result'.args[2]).err # NoError]_vars

\* C36: an escrow reaches Completed only after it was Funded and then
\* Shipped, and Refunded only after it was Funded and then RefundRequested:
\* Completed is entered from Shipped alone, Shipped from Funded alone, Funded
\* from Created alone, Refunded from RefundRequested alone, RefundRequested
\* from Funded or Shipped alone, no escrow returns to Created, and every
\* escrow past Created other than a Disputed one carries the transaction id
\* its funding recorded.
C36_PhasesInOrder ==
    [][\A id \in DOMAIN escrow_contracts' :
          LET after == escrow_contracts'[id]
          IN  /\ id \notin DOMAIN escrow_contracts => after.status = "Created"
              /\ after.status \in {"Funded", "Shipped", "Completed", "RefundRequested",
                                   "Refunded"} => after.l1_tx_id # "None"
              /\ (/\ id \in DOMAIN escrow_contracts
                  /\ after.status # escrow_contracts[id].status) =>
                    LET from == escrow_contracts[id].status
                    IN  /\ after.status # "Created"
                        /\ after.status = "Funded" => from = "Created"
                        /\ after.status = "Shipped" => from = "Funded"
                        /\ after.status = "Completed" => from = "Shipped"
                        /\ after.status = "RefundRequested" => from \in {"Funded", "Shipped"}
                        /\ after.status = "Refunded" => from = "RefundRequested"]_vars

\* A refund was approved for an escrow that had been funded.
C36_Witness ==
    /\ result.op = "approve_refund"
    /\ result.ret = NoError
    /\ \E id \in DOMAIN escrow_contracts :
          /\ result.args = <<id>>
          /\ escrow_contracts[id].status = "Refunded"
          /\ escrow_contracts[id].l1_tx_id # "None"

(***************************************************************************)
(* create_global_listing with a P2P network set.                           *)
(***************************************************************************)
\* The key of the node's own keypair.
NodeKey == "A"

\* create_global_listing for a seller the RPC caller names, or the node's
\* own key: the listing is stored and pushed, then signed with the node's
\* keypair and broadcast. `result` records the message sent.
CreateAndBroadcast ==
    /\ Len(global_listings) < MaxListings
    /\ \E id \in {"l1", "l2"}, seller \in {"A", "B"} :
          LET listing == Listing(id, seller, TRUE)
              message == [listing |-> listing,
                          signature |-> sign(NodeKey, serialize_Listing(listing)),
                          timestamp |-> now]
          IN  /\ listings' = store_listing(listings, listing)
              /\ global_listings' = Append(global_listings, listing)
              /\ result' = [op |-> "create_global_listing", args |-> <<listing>>,
                            ret |-> NoError, sent |-> message]
    /\ UNCHANGED <<listingFrame, receiving>>

NextBroadcast ==
    \/ CreateAndBroadcast
    \/ \E t \in Tasks : ReceiveListing(t)
    \/ \E t \in Tasks : StoreReceived(t)

SpecBroadcast == InitListings /\ [][NextBroadcast]_vars

\* C37: every ListingBroadcast that create_global_listing emits is accepted
\* by handle_received_listing on a node that does not hold the listing id:
\* its signature verifies under listing.seller, whoever the seller is, and
\* the listing is stored there.
C37_BroadcastAccepted ==
    [][result'.op = "create_global_listing" =>
          LET message == result'.sent
              there == handle_received_listing(message.listing, message.signature, <<>>)
          IN  there.err = NoError /\ there.add]_vars

(***************************************************************************)
(* Inbound StateUpdateProposal messages: process_messages takes them from  *)
(* the channel in order and spawns one task per message; each task runs    *)
(* handle_message, which calls apply_state_update.                         *)
(***************************************************************************)
\* The task spawned for the first message received and the one for the second.
InboundOrder == <<"t1", "t2">>

\* Pairs of proposals for channel ch, fully signed, the first for the next
\* nonce and the second for the nonce after.
InboundPairs(ch) ==
    {<<[channel_id |-> ch.channel_id,
        signed_update |-> SignedBy(first, ch.state.nonce + 1, Range(ch.participants))],
       [channel_id |-> ch.channel_id,
        signed_update |-> SignedBy(second, ch.state.nonce + 2, Range(ch.participants))]>> :
        first \in {Transfer(ch.participants[1], ch.participants[2], 1),
                   CreateListing(Listing("l1", ch.participants[1], TRUE))},
        second \in {Transfer(ch.participants[2], ch.participants[1], 1),
                    Transfer(ch.participants[1], ch.participants[2], MaxAmount + 1)}}

\* Two proposals arrive on the message channel, in order.
ReceiveProposals ==
    /\ \A t \in Tasks : pc[t] = "idle"
    /\ \E id \in DOMAIN channels :
          /\ channels[id].state.nonce + 2 <= MaxNonce
          /\ \E pair \in InboundPairs(channels[id]) :
                arg' = [t \in Tasks |-> IF t = InboundOrder[1] THEN pair[1] ELSE pair[2]]
    /\ pc' = [t \in Tasks |-> "queued"]
    /\ ret' = [t \in Tasks |-> NoError]
    /\ local' = [t \in Tasks |-> NoState]
    /\ base' = channels
    /\ UNCHANGED <<marketVars, channelVars, channels, storage, lock>>

\* rx.recv().await, then tokio::spawn of the handler: the messages are taken
\* in the order they arrived, the spawned task runs on its own.
Spawn(t) ==
    /\ pc[t] = "queued"
    /\ \A i \in 1..Len(InboundOrder) :
          (\E j \in (i + 1)..Len(InboundOrder) : InboundOrder[j] = t) =>
              pc[InboundOrder[i]] # "queued"
    /\ pc' = [pc EXCEPT ![t] = "acquire"]
    /\ UNCHANGED <<marketVars, channelVars, channels, storage, lock, arg, ret, local, base>>

NextInbound ==
    \/ ReceiveProposals
    \/ \E t \in Tasks : Spawn(t)
    \/ \E t \in Tasks : Acquire(t)
    \/ \E t \in Tasks : Check(t)
    \/ \E t \in Tasks : Commit(t)
    \/ Finish

SpecInbound == InitManager /\ [][NextInbound]_vars

\* C38: two fully signed proposals for an Active channel at nonce n, for
\* nonces n+1 and n+2 and valid when applied one after the other, received
\* in that order, are both applied: once both handlers have returned, the
\* channel is at nonce n+2.
C38_BothApplied ==
    (\A t \in Tasks : pc[t] = "done") =>
        LET id == arg[InboundOrder[1]].channel_id
            first == apply_update(base[id], arg[InboundOrder[1]].signed_update)
            second == apply_update(first.channel, arg[InboundOrder[2]].signed_update)
        IN  (first.err = NoError /\ second.err = NoError) =>
                /\ \A t \in Tasks : ret[t] = NoError
                /\ channels[id].state.nonce = base[id].state.nonce + 2

(***************************************************************************)
(* The lock discipline of the manager's operations: which of the three     *)
(* RwLocks (channels, global_listings, escrow_contracts) each operation    *)
(* takes, in which mode, where it drops the guard, and which calls to      *)
(* storage or to an adapter it makes in between.                           *)
(***************************************************************************)
Maps == {"channels", "global_listings", "escrow_contracts"}

Guard(map, mode) == [map |-> map, mode |-> mode]

\* The steps of an operation.
Write(map) == [do |-> "acquire", map |-> map, mode |-> "write"]
Read(map) == [do |-> "acquire", map |-> map, mode |-> "read"]
Drop(map) == [do |-> "drop", map |-> map, mode |-> "none"]
Call(callee) == [do |-> "call", map |-> callee, mode |-> "none"]
ReturnIf(why) == [do |-> "return_if", map |-> why, mode |-> "none"]

\* The operations of MarketplaceManager, each as the sequence of its lock
\* acquisitions, early returns, calls and guard drops. A guard bound by `let`
\* is dropped where its scope ends or at drop(); a temporary guard is dropped
\* at the end of its statement.
Operations ==
    [load_channels |->
        <<Call("list_channels"), Write("channels"), ReturnIf("load_channel failed"),
          Drop("channels")>>,
     create_channel |->
        <<Call("lock_collateral"), Write("channels"), ReturnIf("ChannelAlreadyExists"),
          Drop("channels"), Call("store_channel")>>,
     activate_channel |->
        <<Write("channels"), ReturnIf("ChannelNotFound"), Call("store_channel"),
          Drop("channels")>>,
     get_channel_info |->
        <<Read("channels"), ReturnIf("ChannelNotFound"), Drop("channels")>>,
     create_state_update |->
        <<Read("channels"), ReturnIf("ChannelNotFound"), Drop("channels")>>,
     apply_state_update |->
        <<Write("channels"), ReturnIf("apply_update failed"), Call("store_channel"),
          Drop("channels")>>,
     list_channels |->
        <<Read("channels"), Drop("channels")>>,
     close_channel |->
        <<Write("channels"), ReturnIf("initiate_close failed"), Call("unlock_collateral"),
          Call("store_channel"), Drop("channels")>>,
     create_global_listing |->
        <<Call("store_listing"), Write("global_listings"), Drop("global_listings"),
          Call("broadcast_listing")>>,
     handle_received_listing |->
        <<ReturnIf("InvalidSignature"), Read("global_listings"), ReturnIf("already have it"),
          Drop("global_listings"), Call("store_listing"), Write("global_listings"),
          Drop("global_listings")>>,
     list_all_listings |->
        <<Read("global_listings"), Drop("global_listings")>>,
     create_escrow |->
        <<Write("escrow_contracts"), Drop("escrow_contracts")>>,
     fund_escrow |->
        <<Write("escrow_contracts"), ReturnIf("escrow not found"), Drop("escrow_contracts")>>,
     get_escrow |->
        <<Read("escrow_contracts"), ReturnIf("escrow not found"), Drop("escrow_contracts")>>,
     process_escrow_timeouts |->
        <<Write("escrow_contracts"), Drop("escrow_contracts")>>]

Idle == [op |-> "none", at |-> 0]

\* The step task t is at, when it is inside an operation.
Busy(t) == pc[t].op # "none"
AtStep(t) == Operations[pc[t].op][pc[t].at]
AtEnd(t) == Busy(t) /\ pc[t].at > Len(Operations[pc[t].op])
Waiting(t, map, mode) ==
    /\ Busy(t) /\ ~AtEnd(t)
    /\ AtStep(t) = [do |-> "acquire", map |-> map, mode |-> mode]

\* A guard that is never released.
drop_guard_leaked(held, map) == held

\* Dropping the guard releases the lock.
drop_guard(held, map) == {g \in held : g.map # map}

\* The end of the function body drops every guard still in scope.
drop_in_scope(held) ==
    drop_guard(drop_guard(drop_guard(held, "channels"), "global_listings"),
               "escrow_contracts")

\* RwLock::write: granted when no guard on the lock is held, by any task.
RwLock_write(map) == \A t \in Tasks : \A g \in guards[t] : g.map # map

\* RwLock::read: granted when no write guard is held and no writer is queued
\* (the lock is write-preferring).
RwLock_read(map) ==
    /\ \A t \in Tasks : Guard(map, "write") \notin guards[t]
    /\ \A t \in Tasks : ~Waiting(t, map, "write")

\* The holder of the write guard of `channels` under held guards g.
ChannelsWriter(g) ==
    IF \E t \in Tasks : Guard("channels", "write") \in g[t]
    THEN CHOOSE t \in Tasks : Guard("channels", "write") \in g[t]
    ELSE "none"

\* The manager with no channel and nothing in progress.
InitLocks ==
    /\ config \in Configs
    /\ channel = MarketplaceChannel_new(config)
    /\ last = [op |-> "new", signed |-> NoSigned, err |-> NoError]
    /\ channels = <<>>
    /\ storage = <<>>
    /\ base = <<>>
    /\ lock = "none"
    /\ pc = [t \in Tasks |-> Idle]
    /\ arg = [t \in Tasks |-> NoArg]
    /\ ret = [t \in Tasks |-> NoError]
    /\ local = [t \in Tasks |-> NoState]
    /\ MarketIdle

locksFrame ==
    <<channelVars, channels, storage, arg, ret, local, base, creating, escrow_contracts, now,
      overflow_checks, locked_collateral, global_listings, listings, receiving, result>>

\* Task t calls an operation of the manager.
Invoke(t) ==
    /\ pc[t] = Idle
    /\ \E op \in DOMAIN Operations : pc' = [pc EXCEPT ![t] = [op |-> op, at |-> 1]]
    /\ UNCHANGED <<locksFrame, guards, lock>>

Advance(t) == pc' = [pc EXCEPT ![t] = [op |-> pc[t].op, at |-> pc[t].at + 1]]

\* self.<map>.write().await or self.<map>.read().await is granted.
AcquireGuard(t) ==
    /\ Busy(t) /\ ~AtEnd(t)
    /\ AtStep(t).do = "acquire"
    /\ IF AtStep(t).mode = "write" THEN RwLock_write(AtStep(t).map)
                                   ELSE RwLock_read(AtStep(t).map)
    /\ guards' = [guards EXCEPT ![t] = @ \cup {Guard(AtStep(t).map, AtStep(t).mode)}]
    /\ lock' = ChannelsWriter(guards')
    /\ Advance(t)
    /\ UNCHANGED locksFrame

\* The guard goes out of scope or is dropped.
DropGuard(t) ==
    /\ Busy(t) /\ ~AtEnd(t)
    /\ AtStep(t).do = "drop"
    /\ guards' = [guards EXCEPT ![t] = drop_guard(@, AtStep(t).map)]
    /\ lock' = ChannelsWriter(guards')
    /\ Advance(t)
    /\ UNCHANGED locksFrame

\* A call to storage or to an adapter returns.
CallReturns(t) ==
    /\ Busy(t) /\ ~AtEnd(t)
    /\ AtStep(t).do = "call"
    /\ Advance(t)
    /\ UNCHANGED <<locksFrame, guards, lock>>

\* An error check: the operation goes on, or returns early and the guards in
\* scope are dropped.
ContinueOrReturn(t) ==
    /\ Busy(t) /\ ~AtEnd(t)
    /\ AtStep(t).do = "return_if"
    /\ \/ /\ Advance(t)
          /\ UNCHANGED <<guards, lock>>
       \/ /\ pc' = [pc EXCEPT ![t] = Idle]
          /\ guards' = [guards EXCEPT ![t] = drop_in_scope(@)]
          /\ lock' = ChannelsWriter(guards')
    /\ UNCHANGED locksFrame

\* The operation returns to its caller.
Return(t) ==
    /\ AtEnd(t)
    /\ pc' = [pc EXCEPT ![t] = Idle]
    /\ UNCHANGED <<locksFrame, guards, lock>>

NextLocks ==
    \/ \E t \in Tasks : Invoke(t)
    \/ \E t \in Tasks : AcquireGuard(t)
    \/ \E t \in Tasks : DropGuard(t)
    \/ \E t \in Tasks : CallReturns(t)
    \/ \E t \in Tasks : ContinueOrReturn(t)
    \/ \E t \in Tasks : Return(t)

SpecLocks == InitLocks /\ [][NextLocks]_vars

\* Every step of an operation that can be taken is taken; the RwLock queues
\* its waiters, so a task that waits for a lock which is free again and
\* again gets it.
SpecLocksFair ==
    /\ SpecLocks
    /\ \A t \in Tasks :
          /\ SF_vars(AcquireGuard(t))
          /\ WF_vars(DropGuard(t))
          /\ WF_vars(CallReturns(t))
          /\ WF_vars(ContinueOrReturn(t))
          /\ WF_vars(Return(t))

\* Each task holds at most one guard, waits for no lock it already holds a
\* guard of, and holds no guard once its operation has returned.
LockDiscipline ==
    \A t \in Tasks :
        /\ Cardinality(guards[t]) <= 1
        /\ \A map \in Maps, mode \in {"read", "write"} :
              Waiting(t, map, mode) => \A g \in guards[t] : g.map # map
        /\ (~Busy(t) \/ AtEnd(t)) => guards[t] = {}

\* C39: manager operations cannot deadlock: an operation holds at most one
\* of the three map locks at a time, never re-acquires a lock it holds and
\* has released it when it returns, and every invoked operation eventually
\* returns, given that storage and adapter calls return.
C39_NoDeadlock ==
    /\ []LockDiscipline
    /\ \A t \in Tasks : Busy(t) ~> ~Busy(t)

\* C39: close_channel holds the write guard of channels while its call to
\* the L1 adapter is outstanding, and the other task waits for that lock in
\* apply_state_update.
C39_Witness ==
    /\ pc["t1"].op = "close_channel"
    /\ ~AtEnd("t1")
    /\ AtStep("t1") = Call("unlock_collateral")
    /\ guards["t1"] = {Guard("channels", "write")}
    /\ Waiting("t2", "channels", "write")
    /\ pc["t2"].op = "apply_state_update"

(***************************************************************************)
(* rpc/src/api.rs: create_order, over create_state_update and              *)
(* apply_state_update of the manager.                                      *)
(***************************************************************************)
ListingNotFound == [kind |-> "Listing not found", required |-> 0, available |-> 0]

\* get_channel_listings: the active listings of the channel.
get_channel_listings(ch) == SelectSeq(ch.state.listings, LAMBDA l : l.active)

\* create_state_update: the update for the next nonce, signed with the
\* node's keypair.
create_state_update(ch, update, keypair) ==
    LET nonce == ch.state.nonce + 1
    IN  add_signature(SignedStateUpdate_new(update, nonce), keypair,
                      sign(keypair, signing_message(update, nonce)))

\* apply_state_update with a CreateListing signed by every participant, as
\* received from the peers of the channel.
ApplyListing ==
    \E id \in DOMAIN channels, listing_id \in {"l1"} :
        /\ channels[id].state.nonce < MaxNonce
        /\ LET ch == channels[id]
               signed == SignedBy(CreateListing(Listing(listing_id, ch.participants[1], TRUE)),
                                  ch.state.nonce + 1, Range(ch.participants))
           IN  ChannelCall("apply_state_update", <<id, signed>>, id, apply_update(ch, signed))

\* RpcApi::create_order(channel_id, listing_id, buyer): the listing is looked
\* up among the channel's active listings, a Pending order with its seller
\* and price and a fresh id is built, signed by create_state_update and
\* handed to apply_state_update.
RpcCreateOrder ==
    \E id \in DOMAIN channels \cup {UnknownChannelId}, listing_id \in {"l1", "l2"},
       buyer \in {"A", "B"}, order_id \in {"o1"} :
        /\ contains_key(channels, id) => channels[id].state.nonce < MaxNonce
        /\ LET found == SelectSeq(get_channel_listings(channels[id]),
                                  LAMBDA l : l.id = listing_id)
               order == Order(order_id, listing_id, buyer, found[1].seller, found[1].price,
                              "Pending")
               signed == create_state_update(channels[id], CreateOrder(order), NodeKey)
           IN  ChannelCall("create_order", <<id, listing_id, buyer, order_id>>, id,
                           IF found = <<>>
                           THEN Outcome(ListingNotFound, channels[id])
                           ELSE apply_update(channels[id], signed))

NextRpc ==
    \/ CreateChannel
    \/ StoreCreated
    \/ ActivateChannel
    \/ ApplyListing
    \/ RpcCreateOrder

SpecRpc == InitChannels /\ [][NextRpc]_vars

\* C40: create_order for an Active two-participant channel that holds the
\* active listing, with a buyer whose balance is at least the listing's
\* price, succeeds: afterwards a Pending order with the listing's seller and
\* price is in the channel's orders and the nonce has advanced by 1.
C40_CreateOrderSucceeds ==
    [][(/\ result'.op = "create_order"
        /\ contains_key(channels, result'.args[1])
        /\ channels[result'.args[1]].status = "Active"
        /\ Len(channels[result'.args[1]].participants) = 2
        /\ \E i \in 1..Len(channels[result'.args[1]].state.listings) :
              LET l == channels[result'.args[1]].state.listings[i]
              IN  /\ l.id = result'.args[2]
                  /\ l.active
                  /\ get_balance(channels[result'.args[1]].state, result'.args[3]) >= l.price) =>
           /\ result'.ret = NoError
           /\ channels'[result'.args[1]].state.nonce =
                  channels[result'.args[1]].state.nonce + 1
           /\ \E j \in 1..Len(channels'[result'.args[1]].state.orders) :
                 LET o == channels'[result'.args[1]].state.orders[j]
                 IN  /\ o.id = result'.args[4]
                     /\ o.listing_id = result'.args[2]
                     /\ o.status = "Pending"]_vars
====
